---- MODULE Spec2Model ----
(***************************************************************************)
(* FoodFlow (household food management): the relational state kept by      *)
(* app/models.py and the request handlers of app/routes.py, with the       *)
(* helpers of app/smart_functions.py and app/ai_functions.py they call.    *)
(*                                                                         *)
(* Spec     : the pantry / shopping list / meal plan / reward tables,      *)
(*            started from a database in which both users own rows, and    *)
(*            the request handlers that name a row by its id, issued by    *)
(*            either user.  Each request runs to completion (no two        *)
(*            requests interleave).                                        *)
(* SpecShop : the shopping list handlers (items, completion, the meal      *)
(*            plan's missing ingredients) over larger lists and pantries.  *)
(* SpecAI   : the AI-backed functions of app/ai_functions.py, one call at  *)
(*            a time, over every upstream and database outcome; Deliver    *)
(*            hands the outcome back before the next call.                 *)
(*                                                                         *)
(* SpecRewards, SpecAnalytics, SpecNutrition : the handlers that award     *)
(*            points; the update_* functions of app/analytics.py run by    *)
(*            concurrent requests, each in two steps (query, commit); the  *)
(*            planning of meals and the daily nutrition totals.            *)
(* SpecPantry, SpecFilter, SpecUnits : the recipe features over a pantry    *)
(*            with wasted rows; the preference filter on recipes of any    *)
(*            shape; the unit conversions, the remap of recipe units to    *)
(*            the pantry and the consumption of a meal plan.               *)
(* SpecScale, SpecScore, SpecLevel : the scaling of a recipe to a number   *)
(*            of servings, the waste reduction score and its grade, the    *)
(*            level of a number of points.                                 *)
(* SpecComplete, SpecAward : complete_shopping_list and award_points run   *)
(*            by two concurrent requests, each in two steps (the reads,    *)
(*            then the commit), with the failures of either step.          *)
(* SpecPrompt, SpecQuantity : what the meal plan prompt embeds of the      *)
(*            profiles of a family; the handlers that write                *)
(*            Product.quantity, with any number in their forms.            *)
(*                                                                         *)
(* add_product creates the rows the specifications start from; only        *)
(* SpecQuantity steps it.  The analytics tables are                        *)
(* written only in SpecAnalytics and SpecNutrition: the handlers of the    *)
(* other specifications are taken up to their call of update_*.            *)
(*                                                                         *)
(* Quantities are integers (the code uses floats; only sums, comparisons   *)
(* and exact halvings are taken here).  Columns that no modelled handler   *)
(* reads (expiry_date, min_quantity, notes, timestamps, the UserStats      *)
(* counters, the analytics roll-up tables, badges) are left out.           *)
(***************************************************************************)
EXTENDS Integers, Sequences, FiniteSets, TLC

\* ---------------------------------------------------------------- bounds
\* Spec: the tables of the id-addressed handlers
MaxProducts == 2
MaxLists == 1
MaxItems == 1
MaxMeals == 1
MaxLedger == 2
MaxQuantity == 2
\* SpecShop: the shopping handlers over a pantry of one row
ShopMaxProducts == 3
ShopMaxLists == 2
ShopMaxItems == 2
ShopMaxLedger == 3
ShopMaxQuantity == 12

\* ---------------------------------------------------------------- inputs
Users == {1, 2}
Names == {"Pasta", "Riso"}
Units == {"g", "kg"}
Categories == {"Altro"}
Quantities == {0, 1, 2}
WastePercentages == {50, 100}
Failures == {"none", "commit", "award"}

VARIABLES
    products,   \* Product rows: id -> [user_id, name, quantity, unit, category, wasted]
    lists,      \* ShoppingList rows: id -> [user_id, completed]
    items,      \* ShoppingItem rows: id -> [shopping_list_id, name, quantity, unit, completed]
    meals,      \* MealPlan rows: id -> [user_id, ingredients, calories]
    stats,      \* UserStats rows: user_id -> [points, level]
    ledger,     \* RewardHistory rows in insertion order: [user_id, reward_type, value]
    nextId,     \* the autoincrement counters: [product, list, item, meal]
    last,       \* the last request and its response: [actor, status, award]
    profiles,   \* NutritionalProfile rows: user_id -> [allergies, dietary_restrictions]
    ai,         \* the last call of an AI function (SpecAI)
    cap,        \* the bounds of the behaviour: [product, list, item, meal, ledger, quantity]
    analytics,  \* DailyNutrition, WasteAnalytics, ShoppingAnalytics rows in insertion
                \* order: [daily, waste, shopping], each row [user_id, date, ...]
    sessions,   \* the requests inside an update_* function of app/analytics.py
    family      \* Family / FamilyMember: the user ids of the members of the family

dbvars == <<products, lists, items, meals, stats, ledger, nextId>>
statvars == <<analytics, sessions, family>>
vars == <<products, lists, items, meals, stats, ledger, nextId, last, ai, cap, profiles,
          analytics, sessions, family>>

\* ---------------------------------------------------------------- helpers
Max(a, b) == IF a >= b THEN a ELSE b
Min(a, b) == IF a <= b THEN a ELSE b

RECURSIVE SumOver(_, _)
\* the sum of f[x] over the finite set S
SumOver(S, f) ==
    IF S = {} THEN 0
    ELSE LET x == CHOOSE y \in S : TRUE IN f[x] + SumOver(S \ {x}, f)

\* the request just served and its response; award is what award_points returned
\* to the handler (NoAward: the handler did not call it)
Response(actor, status, award) == [actor |-> actor, status |-> status, award |-> award]

NoAward == [called |-> FALSE, success |-> FALSE, points_awarded |-> 0]

Request(actor, status) == Response(actor, status, NoAward)

\* a row removed from a table
Remove(table, id) == [x \in DOMAIN table \ {id} |-> table[x]]
\* a row added to (or replaced in) a table
Put(table, id, row) == [x \in DOMAIN table \cup {id} |-> IF x = id THEN row ELSE table[x]]

\* ---------------------------------------------------------------- gamification
POINTS_TABLE ==
    [product_added |-> 10, shopping_list_created |-> 5, shopping_completed |-> 20,
     waste_reduction |-> 15, achieve_nutrition_goal |-> 20, create_recipe |-> 5,
     first_product |-> 50]

\* int(math.sqrt(points / 100)): the largest k with 100 * k * k <= points
IntSqrtHundredth(points) ==
    CHOOSE k \in 0..points : 100 * k * k <= points /\ points < 100 * (k + 1) * (k + 1)

\* the level as the docstring has it, floor(sqrt(points / 100)), never below 1
LevelOfDocstring(points) ==
    IF points < 0 THEN 1 ELSE Max(1, IntSqrtHundredth(points))

calculate_level(points) ==
    IF points < 0 THEN 1 ELSE Max(1, IntSqrtHundredth(points) + 1)

\* what award_points appends to the ledger
RewardRow(user_id, amount) ==
    [user_id |-> user_id, reward_type |-> "points", value |-> amount]

\* an award that adds the points and writes no RewardHistory row
award_points_unrecorded(st, led, user_id, amount, committed) ==
    IF ~committed
    THEN <<st, led, [called |-> TRUE, success |-> FALSE, points_awarded |-> 0]>>
    ELSE << [st EXCEPT ![user_id].points = @ + amount], led,
            [called |-> TRUE, success |-> TRUE, points_awarded |-> amount] >>

\* award_points(user_id, action_type, amount): <<stats, ledger, returned dict>>.
\* committed = FALSE is the except branch: rollback, nothing is kept.
award_points(st, led, user_id, amount, committed) ==
    IF ~committed
    THEN <<st, led, [called |-> TRUE, success |-> FALSE, points_awarded |-> 0]>>
    ELSE LET old == st[user_id]
             new_points == old.points + amount
             new_level == calculate_level(new_points)
             level_up == new_level > old.level
         IN  << [st EXCEPT ![user_id] =
                    [points |-> new_points,
                     level |-> IF level_up THEN new_level ELSE old.level]],
                Append(led, RewardRow(user_id, amount)),
                [called |-> TRUE, success |-> TRUE, points_awarded |-> amount] >>

\* room in the ledger for one more row (the model's bound on the history)
LedgerRoom(f) == f = "award" \/ Len(ledger) < cap.ledger

\* ---------------------------------------------------------------- requests
\* a request that changes no row
Reject(actor, status) ==
    /\ last' = Request(actor, status)
    /\ UNCHANGED <<dbvars, ai, cap, statvars, profiles>>

ProductRow(user_id, name, quantity, unit, category) ==
    [user_id |-> user_id, name |-> name, quantity |-> quantity, unit |-> unit,
     category |-> category, wasted |-> FALSE]

\* the same query without the user_id filter
PantryMatchesAnyUser(prods, user_id, name) ==
    {p \in DOMAIN prods : prods[p].name = name /\ ~prods[p].wasted}

\* Product.query.filter_by(user_id=..., name=..., wasted=False)
PantryMatches(prods, user_id, name) ==
    {p \in DOMAIN prods :
        prods[p].user_id = user_id /\ prods[p].name = name /\ ~prods[p].wasted}

\* POST /products/add
add_product(u, name, quantity, unit, category, f) ==
    LET duplicate == {p \in PantryMatches(products, u, name) :
                         products[p].category = category}
    IN  IF quantity <= 0 THEN Reject(u, "invalid")
        ELSE IF duplicate # {} THEN Reject(u, "duplicate")
        ELSE IF f = "commit" THEN Reject(u, "error")
        ELSE /\ nextId.product <= cap.product
             /\ products' = Put(products, nextId.product,
                                ProductRow(u, name, quantity, unit, category))
             /\ nextId' = [nextId EXCEPT !.product = @ + 1]
             /\ last' = Request(u, "ok")
             /\ UNCHANGED <<lists, items, meals, stats, ledger, ai, cap, statvars, profiles>>

\* POST /products/edit/<product_id>
edit_product(u, product_id, name, quantity, unit, f) ==
    IF product_id \notin DOMAIN products THEN Reject(u, "notfound")
    ELSE LET product == products[product_id]
         IN  IF product.user_id # u
             THEN Reject(u, "denied")
             ELSE IF f = "commit"
             THEN Reject(u, "error")
             ELSE /\ products' = [products EXCEPT ![product_id] =
                        [@ EXCEPT !.name = name, !.quantity = quantity, !.unit = unit]]
                  /\ last' = Request(u, "ok")
                  /\ UNCHANGED <<lists, items, meals, stats, ledger, nextId, ai, cap, statvars, profiles>>

\* POST /products/delete/<product_id>
delete_product(u, product_id, f) ==
    IF product_id \notin DOMAIN products THEN Reject(u, "notfound")
    ELSE LET product == products[product_id]
         IN  IF product.user_id # u
             THEN Reject(u, "denied")
             ELSE IF f = "commit"
             THEN Reject(u, "error")
             ELSE /\ products' = Remove(products, product_id)
                  /\ last' = Request(u, "ok")
                  /\ UNCHANGED <<lists, items, meals, stats, ledger, nextId, ai, cap, statvars, profiles>>

\* product.quantity *= (1 - waste_percentage / 100)
WastedQuantity(quantity, waste_percentage) ==
    (quantity * (100 - waste_percentage)) \div 100

\* the product is representable after the partial waste (integers only)
WasteExact(quantity, waste_percentage) ==
    (quantity * (100 - waste_percentage)) % 100 = 0

\* int(5 * (waste_percentage / 100)): int() truncates toward zero
WastePoints(waste_percentage) ==
    IF waste_percentage >= 0
    THEN (5 * waste_percentage) \div 100
    ELSE 0 - ((5 * (0 - waste_percentage)) \div 100)

\* POST /products/waste/<product_id>
waste_product(u, product_id, waste_percentage, f) ==
    IF product_id \notin DOMAIN products THEN Reject(u, "notfound")
    ELSE LET product == products[product_id]
             awarded == award_points(stats, ledger, u, WastePoints(waste_percentage),
                                     f # "award")
         IN  IF product.user_id # u
             THEN Reject(u, "denied")
             ELSE IF f = "commit"
             THEN Reject(u, "error")
             ELSE /\ LedgerRoom(f)
                  /\ waste_percentage < 100 =>
                        /\ WasteExact(product.quantity, waste_percentage)
                        /\ WastedQuantity(product.quantity, waste_percentage)
                              <= cap.quantity
                  /\ products' = [products EXCEPT ![product_id] =
                        IF waste_percentage >= 100
                        THEN [@ EXCEPT !.wasted = TRUE]
                        ELSE [@ EXCEPT !.quantity =
                                 WastedQuantity(@, waste_percentage)]]
                  /\ stats' = awarded[1]
                  /\ ledger' = awarded[2]
                  /\ last' = Response(u, "ok", awarded[3])
                  /\ UNCHANGED <<lists, items, meals, nextId, ai, cap, statvars, profiles>>

\* POST /products/recycle/<product_id>
recycle_product(u, product_id, f) ==
    IF product_id \notin DOMAIN products THEN Reject(u, "notfound")
    ELSE LET product == products[product_id]
             awarded == award_points(stats, ledger, u, 10, f # "award")
         IN  IF product.user_id # u
             THEN Reject(u, "denied")
             ELSE IF f = "commit"
             THEN Reject(u, "error")
             ELSE /\ LedgerRoom(f)
                  /\ products' = [products EXCEPT ![product_id].wasted = TRUE]
                  /\ stats' = awarded[1]
                  /\ ledger' = awarded[2]
                  /\ last' = Response(u, "ok", awarded[3])
                  /\ UNCHANGED <<lists, items, meals, nextId, ai, cap, statvars, profiles>>

\* ---------------------------------------------------------------- shopping lists
ItemRow(shopping_list_id, name, quantity, unit) ==
    [shopping_list_id |-> shopping_list_id, name |-> name, quantity |-> quantity,
     unit |-> unit, completed |-> FALSE]

\* shopping_list.items
ItemsOf(its, list_id) == {i \in DOMAIN its : its[i].shopping_list_id = list_id}

\* POST /shopping-list/create
create_shopping_list(u, f) ==
    LET awarded == award_points(stats, ledger, u, 5, f # "award")
    IN  IF f = "commit" THEN Reject(u, "error")
        ELSE /\ nextId.list <= cap.list
             /\ LedgerRoom(f)
             /\ lists' = Put(lists, nextId.list, [user_id |-> u, completed |-> FALSE])
             /\ nextId' = [nextId EXCEPT !.list = @ + 1]
             /\ stats' = awarded[1]
             /\ ledger' = awarded[2]
             /\ last' = Response(u, "ok", awarded[3])
             /\ UNCHANGED <<products, items, meals, ai, cap, statvars, profiles>>

\* POST /shopping-list/<list_id>/add-item
add_shopping_item(u, list_id, name, quantity, unit, f) ==
    IF list_id \notin DOMAIN lists THEN Reject(u, "notfound")
    ELSE LET owner == lists[list_id].user_id
             existing == {i \in ItemsOf(items, list_id) :
                             items[i].name = name /\ ~items[i].completed}
         IN  IF owner # u THEN Reject(u, "denied")
             ELSE IF quantity <= 0 THEN Reject(u, "invalid")
             ELSE IF f = "commit" THEN Reject(u, "error")
             ELSE IF existing # {}
             THEN \E i \in existing :
                    /\ items[i].quantity + quantity <= cap.quantity
                    /\ items' = [items EXCEPT ![i].quantity = @ + quantity]
                    /\ last' = Request(u, "ok")
                    /\ UNCHANGED <<products, lists, meals, stats, ledger, nextId, ai, cap, statvars, profiles>>
             ELSE /\ nextId.item <= cap.item
                  /\ items' = Put(items, nextId.item, ItemRow(list_id, name, quantity, unit))
                  /\ nextId' = [nextId EXCEPT !.item = @ + 1]
                  /\ last' = Request(u, "ok")
                  /\ UNCHANGED <<products, lists, meals, stats, ledger, ai, cap, statvars, profiles>>

\* POST /shopping-list/item/<item_id>/toggle
toggle_shopping_item(u, item_id, f) ==
    IF item_id \notin DOMAIN items THEN Reject(u, "notfound")
    ELSE LET owner == lists[items[item_id].shopping_list_id].user_id
         IN  IF owner # u THEN Reject(u, "denied")
             ELSE IF f = "commit" THEN Reject(u, "error")
             ELSE /\ items' = [items EXCEPT ![item_id].completed = ~@]
                  /\ last' = Request(u, "ok")
                  /\ UNCHANGED <<products, lists, meals, stats, ledger, nextId, ai, cap, statvars, profiles>>

\* DELETE /shopping-list/item/<item_id>/delete
delete_shopping_item(u, item_id, f) ==
    IF item_id \notin DOMAIN items THEN Reject(u, "notfound")
    ELSE LET owner == lists[items[item_id].shopping_list_id].user_id
         IN  IF owner # u THEN Reject(u, "denied")
             ELSE IF f = "commit" THEN Reject(u, "error")
             ELSE /\ items' = Remove(items, item_id)
                  /\ last' = Request(u, "ok")
                  /\ UNCHANGED <<products, lists, meals, stats, ledger, nextId, ai, cap, statvars, profiles>>

\* DELETE /shopping-list/<list_id>/delete (the items go with the list: cascade)
delete_shopping_list(u, list_id, f) ==
    IF list_id \notin DOMAIN lists THEN Reject(u, "notfound")
    ELSE LET owner == lists[list_id].user_id
         IN  IF owner # u THEN Reject(u, "denied")
             ELSE IF f = "commit" THEN Reject(u, "error")
             ELSE /\ lists' = Remove(lists, list_id)
                  /\ items' = [i \in DOMAIN items \ ItemsOf(items, list_id) |-> items[i]]
                  /\ last' = Request(u, "ok")
                  /\ UNCHANGED <<products, meals, stats, ledger, nextId, ai, cap, statvars, profiles>>

\* the orders in which a query without ORDER BY may return the rows S
Orders(S) ==
    {o \in [1..Cardinality(S) -> S] : \A a, b \in 1..Cardinality(S) : a # b => o[a] # o[b]}

\* the product the loop of complete_shopping_list creates for an item
NewProductFor(u, item) == ProductRow(u, item.name, item.quantity, item.unit, "Altro")

\* a restock that overwrites the quantity instead of adding to it
RestockedOverwrite(product, item) == [product EXCEPT !.quantity = item.quantity]

\* the row complete_shopping_list leaves for a product found by .first()
Restocked(product, item) == [product EXCEPT !.quantity = @ + item.quantity]

RECURSIVE FoldCompleted(_, _, _, _)
\* the loop of complete_shopping_list over completed_items, in the order `order`;
\* pick[i] is the row .first() returns for item i when some row matches.
\* acc = [products, next, added, updated, valid]
FoldCompleted(order, acc, u, pick) ==
    IF order = <<>> THEN acc
    ELSE LET i == Head(order)
             item == items[i]
             matching == PantryMatches(acc.products, u, item.name)
         IN  IF matching # {}
             THEN IF pick[i] \in matching
                  THEN FoldCompleted(Tail(order),
                          [acc EXCEPT !.products[pick[i]] = Restocked(@, item),
                                      !.updated = @ + 1], u, pick)
                  ELSE [acc EXCEPT !.valid = FALSE]
             ELSE FoldCompleted(Tail(order),
                     [acc EXCEPT !.products = Put(@, acc.next, NewProductFor(u, item)),
                                 !.next = @ + 1,
                                 !.added = @ + 1], u, pick)

\* a list whose guard "if shopping_list.completed" never fires
NeverCompleted(shopping_list) == FALSE

\* if shopping_list.completed: 400
AlreadyCompleted(shopping_list) == shopping_list.completed

\* POST /shopping-list/<list_id>/complete
complete_shopping_list(u, list_id, f) ==
    IF list_id \notin DOMAIN lists THEN Reject(u, "notfound")
    ELSE LET shopping_list == lists[list_id]
             completed_items == {i \in ItemsOf(items, list_id) : items[i].completed}
         IN  IF shopping_list.user_id # u
             THEN Reject(u, "denied")
             ELSE IF AlreadyCompleted(shopping_list)
             THEN Reject(u, "already")
             ELSE IF completed_items = {}
             THEN Reject(u, "invalid")
             ELSE IF f = "commit"
             THEN Reject(u, "error")
             ELSE \E order \in Orders(completed_items) :
                  \E pick \in [completed_items -> 1..cap.product] :
                    LET done == FoldCompleted(order,
                                    [products |-> products, next |-> nextId.product,
                                     added |-> 0, updated |-> 0, valid |-> TRUE], u, pick)
                        points == (done.added + done.updated) * 2
                        awarded == award_points(stats, ledger, u, points, f # "award")
                    IN  /\ done.valid
                        /\ done.next <= cap.product + 1
                        /\ \A p \in DOMAIN done.products :
                              done.products[p].quantity <= cap.quantity
                        /\ LedgerRoom(f)
                        /\ products' = done.products
                        /\ nextId' = [nextId EXCEPT !.product = done.next]
                        /\ lists' = [lists EXCEPT ![list_id].completed = TRUE]
                        /\ stats' = awarded[1]
                        /\ ledger' = awarded[2]
                        /\ last' = Response(u, "ok", awarded[3])
                        /\ UNCHANGED <<items, meals, ai, cap, statvars, profiles>>

\* ---------------------------------------------------------------- meal plans
Ingredient(item, quantity, unit) == [item |-> item, quantity |-> quantity, unit |-> unit]

\* MealPlan.custom_meal: the "ingredients" list of its JSON (<<>>: free text)
CustomMeals ==
    { <<>>,
      <<Ingredient("Pasta", 1, "g")>>,
      <<Ingredient("Riso", 2, "kg"), Ingredient("Pasta", 0, "g")>> }

\* what ai_estimate_meal_calories may answer for 'calories' (AI answer or fallback)
CalorieEstimates == {0, 600}
\* request.form.get('servings', type=int): any int of the form (0: absent)
Servings == {-1, 0, 2}

\* _parse_meal_plan_ingredients: entries with a name and a positive quantity
ParseKept(ing) == ing.item # "" /\ ing.quantity > 0
ParseUnit(ing) == [ing EXCEPT !.unit = IF @ = "" THEN "unit" ELSE @]

RECURSIVE MapParse(_)
MapParse(s) ==
    IF s = <<>> THEN <<>>
    ELSE IF ParseKept(Head(s)) THEN <<ParseUnit(Head(s))>> \o MapParse(Tail(s))
    ELSE MapParse(Tail(s))

_parse_meal_plan_ingredients(meal_plan) == MapParse(meal_plan.custom_meal)

\* name_to_product of _split_missing_vs_available and meal_plan_consume: for each
\* name one non-wasted product of the user (0: none); which one, when several rows
\* carry the name, is the order of the unordered query
NameToProduct(prods, u) ==
    {sel \in [Names -> 0..cap.product] :
        \A n \in Names :
            IF PantryMatches(prods, u, n) = {} THEN sel[n] = 0
            ELSE sel[n] \in PantryMatches(prods, u, n)}

\* the test of _split_missing_vs_available for one ingredient
IsAvailable(prods, sel, ing) ==
    /\ sel[ing.item] # 0
    /\ prods[sel[ing.item]].unit = ing.unit
    /\ prods[sel[ing.item]].quantity >= ing.quantity

\* _split_missing_vs_available: <<missing, available>>
_split_missing_vs_available(prods, sel, ingredients) ==
    << SelectSeq(ingredients, LAMBDA ing : ~IsAvailable(prods, sel, ing)),
       SelectSeq(ingredients, LAMBDA ing : IsAvailable(prods, sel, ing)) >>

\* auto_update_shopping_from_meal_plan: the meal plan exists and is the caller's
AnalysisSucceeds(u, meal_plan_id) ==
    meal_plan_id \in DOMAIN meals /\ meals[meal_plan_id].user_id = u

\* POST /api/recalculate-calories/<meal_id>
recalculate_calories(u, meal_id, estimate, f) ==
    IF ~AnalysisSucceeds(u, meal_id)
    THEN Reject(u, "notfound")
    ELSE IF f = "commit" THEN Reject(u, "error")
    ELSE /\ meals' = [meals EXCEPT ![meal_id].calories = estimate]
         /\ last' = Request(u, "ok")
         /\ UNCHANGED <<products, lists, items, stats, ledger, nextId, ai, cap, statvars, profiles>>

\* DELETE /meal-plan/<meal_id>
delete_meal_plan(u, meal_id, f) ==
    IF meal_id \notin DOMAIN meals THEN Reject(u, "notfound")
    ELSE LET owner == meals[meal_id].user_id
         IN  IF owner # u THEN Reject(u, "denied")
             ELSE IF f = "commit" THEN Reject(u, "error")
             ELSE /\ meals' = Remove(meals, meal_id)
                  /\ last' = Request(u, "ok")
                  /\ UNCHANGED <<products, lists, items, stats, ledger, nextId, ai, cap, statvars, profiles>>

RECURSIVE Consume(_, _, _)
\* the loop of meal_plan_consume over the available ingredients
Consume(available, prods, sel) ==
    IF available = <<>> THEN prods
    ELSE LET ing == Head(available)
             prod == sel[ing.item]
         IN  IF prod # 0 /\ prods[prod].unit = ing.unit /\ ing.quantity > 0
             THEN Consume(Tail(available),
                          [prods EXCEPT ![prod].quantity = Max(0, @ - ing.quantity)], sel)
             ELSE Consume(Tail(available), prods, sel)

\* POST /meal-plan/<meal_plan_id>/consume
meal_plan_consume(u, meal_plan_id, f) ==
    IF ~AnalysisSucceeds(u, meal_plan_id)
    THEN Reject(u, "notfound")
    ELSE IF f = "commit" THEN Reject(u, "error")
    ELSE \E sel \in NameToProduct(products, u) :
            LET parsed == _parse_meal_plan_ingredients(meals[meal_plan_id])
                available == _split_missing_vs_available(products, sel, parsed)[2]
            IN  /\ products' = Consume(available, products, sel)
                /\ last' = Request(u, "ok")
                /\ UNCHANGED <<lists, items, meals, stats, ledger, nextId, ai, cap, statvars, profiles>>

\* the list upsert_missing_ingredients_to_shopping_list writes to: the caller's
\* newest list that is not completed (0: none, one is created)
OpenListOf(u) ==
    LET open == {l \in DOMAIN lists : lists[l].user_id = u /\ ~lists[l].completed}
    IN  IF open = {} THEN 0 ELSE CHOOSE l \in open : \A m \in open : m <= l

RECURSIVE Upsert(_, _, _, _)
\* the loop of upsert_missing_ingredients_to_shopping_list over missing_ingredients;
\* acc = [items, next, valid]; pick[<<name, unit>>] is the entry of name_to_item
\* when several items of the list carry that name and unit
Upsert(missing, acc, list_id, pick) ==
    IF missing = <<>> THEN acc
    ELSE LET ing == Head(missing)
             same == {i \in ItemsOf(acc.items, list_id) :
                         acc.items[i].name = ing.item /\ acc.items[i].unit = ing.unit}
             item == pick[<<ing.item, ing.unit>>]
         IN  IF same # {}
             THEN IF item \in same
                  THEN Upsert(Tail(missing),
                          [acc EXCEPT !.items[item].quantity = @ + ing.quantity],
                          list_id, pick)
                  ELSE [acc EXCEPT !.valid = FALSE]
             ELSE Upsert(Tail(missing),
                     [acc EXCEPT !.items = Put(@, acc.next,
                                     [ItemRow(list_id, ing.item, ing.quantity, ing.unit)
                                         EXCEPT !.completed = FALSE]),
                                 !.next = @ + 1], list_id, pick)

\* POST /meal-plan/<meal_plan_id>/to-shopping-list
meal_plan_to_shopping_list(u, meal_plan_id, f) ==
    IF ~AnalysisSucceeds(u, meal_plan_id)
    THEN Reject(u, "notfound")
    ELSE \E sel \in NameToProduct(products, u) :
         \E pick \in [Names \X Units -> 1..cap.item] :
            LET parsed == _parse_meal_plan_ingredients(meals[meal_plan_id])
                missing == _split_missing_vs_available(products, sel, parsed)[1]
                found == OpenListOf(u)
                list_id == IF found = 0 THEN nextId.list ELSE found
                done == Upsert(missing, [items |-> items, next |-> nextId.item,
                                         valid |-> TRUE], list_id, pick)
            IN  IF missing = <<>>
                THEN Reject(u, "nothing")
                ELSE IF f = "commit"
                THEN Reject(u, "error")
                ELSE /\ done.valid
                     /\ done.next <= cap.item + 1
                     /\ \A i \in DOMAIN done.items : done.items[i].quantity <= cap.quantity
                     /\ found = 0 => nextId.list <= cap.list
                     /\ lists' = IF found = 0
                                 THEN Put(lists, list_id,
                                          [user_id |-> u, completed |-> FALSE])
                                 ELSE lists
                     /\ items' = done.items
                     /\ nextId' = [nextId EXCEPT
                                      !.item = done.next,
                                      !.list = IF found = 0 THEN @ + 1 ELSE @]
                     /\ last' = Request(u, "ok")
                     /\ UNCHANGED <<products, meals, stats, ledger, ai, cap, statvars, profiles>>

\* ---------------------------------------------------------------- Spec
NoRows == [x \in {} |-> 0]

\* the requests that may run an update_* function of app/analytics.py at once
MaxSessions == 2
SessionIds == 1..MaxSessions
Idle == [pc |-> "idle"]
NoSessions == [s \in SessionIds |-> Idle]
NoAnalytics == [daily |-> <<>>, waste |-> <<>>, shopping |-> <<>>]
\* no analytics row, no request inside an update_* function, no family
NoStatistics == analytics = NoAnalytics /\ sessions = NoSessions /\ family = {}
AIIdle == [fn |-> "idle"]
\* no user has declared an allergy or a dietary restriction
NoProfiles == [u \in Users |-> [allergies |-> {}, dietary_restrictions |-> {}]]

\* register: a UserStats row with 0 points, level 1, for every user
Registered == [u \in Users |-> [points |-> 0, level |-> 1]]

\* the inputs of the requests of Spec
EditNames == {"Riso"}
EditQuantities == {0}
ItemQuantities == {0, 1}
CommitFailures == {"none", "commit"}

\* Spec starts from a populated database: po has added a product, lo has created
\* a shopping list (5 points) and put an item on it, mo has planned a meal
Init ==
    \E po \in {2}, lo \in {1}, mo \in {1} :
        /\ products = (1 :> ProductRow(po, "Pasta", 2, "g", "Altro"))
        /\ lists = (1 :> [user_id |-> lo, completed |-> FALSE])
        /\ items = (1 :> ItemRow(1, "Pasta", 1, "g"))
        /\ meals = (1 :> [user_id |-> mo, custom_meal |-> <<Ingredient("Pasta", 1, "g")>>,
                          calories |-> 600])
        /\ stats = award_points(Registered, <<>>, lo, 5, TRUE)[1]
        /\ ledger = award_points(Registered, <<>>, lo, 5, TRUE)[2]
        /\ nextId = [product |-> 2, list |-> 2, item |-> 2, meal |-> 2]
        /\ last = Request(0, "none")
        /\ ai = AIIdle
        /\ profiles = NoProfiles
        /\ cap = [product |-> MaxProducts, list |-> MaxLists, item |-> MaxItems,
                  meal |-> MaxMeals, ledger |-> MaxLedger, quantity |-> MaxQuantity]
        /\ NoStatistics

\* the requests that name a row by its id, by any user
Next ==
    \E u \in Users :
        \/ \E p \in 1..cap.product, n \in EditNames, q \in EditQuantities, un \in {"g"},
              f \in CommitFailures : edit_product(u, p, n, q, un, f)
        \/ \E p \in 1..cap.product, f \in CommitFailures : delete_product(u, p, f)
        \/ \E p \in 1..cap.product, w \in WastePercentages, f \in Failures :
              waste_product(u, p, w, f)
        \/ \E p \in 1..cap.product, f \in Failures : recycle_product(u, p, f)
        \/ \E l \in 1..cap.list, n \in {"Pasta"}, q \in ItemQuantities, un \in {"g"},
              f \in CommitFailures : add_shopping_item(u, l, n, q, un, f)
        \/ \E i \in 1..cap.item, f \in CommitFailures : toggle_shopping_item(u, i, f)
        \/ \E i \in 1..cap.item, f \in CommitFailures : delete_shopping_item(u, i, f)
        \/ \E l \in 1..cap.list, f \in CommitFailures : delete_shopping_list(u, l, f)
        \/ \E l \in 1..cap.list, f \in Failures : complete_shopping_list(u, l, f)
        \/ \E m \in 1..cap.meal, e \in CalorieEstimates, f \in CommitFailures :
              recalculate_calories(u, m, e, f)
        \/ \E m \in 1..cap.meal, f \in CommitFailures : delete_meal_plan(u, m, f)
        \/ \E m \in 1..cap.meal, f \in CommitFailures : meal_plan_consume(u, m, f)

Spec == Init /\ [][Next]_vars

\* ---------------------------------------------------------------- SpecShop
\* the pantries SpecShop starts from: empty, or one row of "Pasta"
ShopPantries ==
    {NoRows} \cup
    {(1 :> [ProductRow(po, "Pasta", 2, un, "Altro") EXCEPT !.wasted = w]) :
        po \in Users, un \in {"g"}, w \in BOOLEAN}

ShopQuantities == {0, 5}

\* user 1 has created a shopping list (5 points) and planned a meal of 5 g of pasta
InitShop ==
    /\ products \in ShopPantries
    /\ lists = (1 :> [user_id |-> 1, completed |-> FALSE])
    /\ items = NoRows
    /\ meals = (1 :> [user_id |-> 1, custom_meal |-> <<Ingredient("Pasta", 5, "g")>>,
                      calories |-> 600])
    /\ stats = award_points(Registered, <<>>, 1, 5, TRUE)[1]
    /\ ledger = award_points(Registered, <<>>, 1, 5, TRUE)[2]
    /\ nextId = [product |-> 2, list |-> 2, item |-> 1, meal |-> 2]
    /\ last = Request(0, "none")
    /\ ai = AIIdle
    /\ profiles = NoProfiles
    /\ cap = [product |-> ShopMaxProducts, list |-> ShopMaxLists, item |-> ShopMaxItems,
              meal |-> 1, ledger |-> ShopMaxLedger, quantity |-> ShopMaxQuantity]
    /\ NoStatistics

\* the requests on shopping lists and their items
NextShop ==
    \E u \in Users :
        \/ \E l \in 1..cap.list, n \in Names, q \in ShopQuantities, un \in {"g"},
              f \in CommitFailures : add_shopping_item(u, l, n, q, un, f)
        \/ \E i \in 1..cap.item, f \in CommitFailures : toggle_shopping_item(u, i, f)
        \/ \E i \in 1..cap.item, f \in CommitFailures : delete_shopping_item(u, i, f)
        \/ \E l \in 1..cap.list, f \in Failures : complete_shopping_list(u, l, f)
        \/ \E m \in 1..cap.meal, f \in CommitFailures :
              meal_plan_to_shopping_list(u, m, f)

SpecShop == InitShop /\ [][NextShop]_vars

\* ---------------------------------------------------------------- claims: shopping
\* the step completes list l: its flag goes from False to True
Completes(l) ==
    /\ l \in DOMAIN lists /\ l \in DOMAIN lists'
    /\ ~lists[l].completed /\ lists'[l].completed

QuantityOf(table) == [x \in DOMAIN table |-> table[x].quantity]

\* what the completion of list l does to the rows named n of the list's owner
FoldsName(l, n) ==
    LET u == lists[l].user_id
        named == {i \in ItemsOf(items, l) : items[i].completed /\ items[i].name = n}
        total == SumOver(named, QuantityOf(items))
        before == PantryMatches(products, u, n)
        after == PantryMatches(products', u, n)
        created == {p \in DOMAIN products' \ DOMAIN products : products'[p].name = n}
    IN  IF named = {}
        THEN created = {} /\ \A p \in before : products'[p] = products[p]
        ELSE IF before = {}
        THEN \E p \in created :
                /\ created = {p} /\ after = {p}
                /\ products'[p].user_id = u
                /\ products'[p].quantity = total
                /\ products'[p].unit \in {items[i].unit : i \in named}
        ELSE /\ created = {} /\ after = before
             /\ SumOver(after, QuantityOf(products')) =
                   SumOver(before, QuantityOf(products)) + total
             /\ \A p \in before :
                   /\ products'[p].quantity >= products[p].quantity
                   /\ products'[p] = [products[p] EXCEPT !.quantity = products'[p].quantity]

CompletionFolds ==
    \A l \in DOMAIN lists :
        Completes(l) =>
            /\ \A n \in Names : FoldsName(l, n)
            /\ \A p \in DOMAIN products :
                  (products[p].user_id # lists[l].user_id \/ products[p].wasted)
                      => p \in DOMAIN products' /\ products'[p] = products[p]
            /\ \A p \in DOMAIN products' \ DOMAIN products : ~products'[p].wasted

\* C1: a successful complete_shopping_list folds the completed items, one after the
\* other, into the owner's pantry: for a name with no non-wasted product of the
\* owner exactly one row is created, with the quantity of the items of that name
\* and the unit of one of them (one item (name, q, unit): quantity q, that unit);
\* for a name with a non-wasted product the quantity grows by the items' quantity
\* and no row is created; every other product row is left as it was.
C1_CompletionFoldsItems == [][CompletionFolds]_vars

\* a completion that incremented the 2 g of pasta to 7 g and created 5 g of rice
C1_Witness ==
    /\ 1 \in DOMAIN lists /\ lists[1].completed /\ last.status = "ok"
    /\ 1 \in DOMAIN products /\ products[1].name = "Pasta" /\ products[1].quantity = 7
    /\ \E p \in DOMAIN products \ {1} :
          /\ products[p] = ProductRow(1, "Riso", 5, "g", "Altro")
          /\ \A r \in DOMAIN products \ {1, p} : products[r].name # "Riso"

\* the actor of the step has no shopping list that is still open
NoOpenListOfActor ==
    \A l \in DOMAIN lists : lists[l].user_id = last'.actor => lists[l].completed

CompletedIsFinal ==
    /\ \A l \in DOMAIN lists :
          lists[l].completed => l \in DOMAIN lists' /\ lists'[l].completed
    /\ last'.status = "already" => UNCHANGED dbvars
    /\ NoOpenListOfActor => products' = products

\* C2: a completed shopping list stays completed through every request (complete,
\* add item, toggle item, delete item, upsert of missing ingredients), and a
\* complete request on it is answered "already completed" and changes no Product
\* row: a user with no open list cannot change the pantry through these requests.
C2_CompletedIsOneWay == [][CompletedIsFinal]_vars

\* the owner asked to complete the completed list again and was refused
C2_Witness ==
    /\ last.status = "already" /\ last.actor = 1
    /\ 1 \in DOMAIN lists /\ lists[1].completed
    /\ \E p \in DOMAIN products : products[p].user_id = 1 /\ ~products[p].wasted

\* ---------------------------------------------------------------- claims: ownership
\* the rows of user b in a database
RowsOf(b, prods, lsts, its, mls, st, led) ==
    [products |-> [p \in {x \in DOMAIN prods : prods[x].user_id = b} |-> prods[p]],
     lists |-> [l \in {x \in DOMAIN lsts : lsts[x].user_id = b} |-> lsts[l]],
     items |-> [i \in {x \in DOMAIN its :
                          /\ its[x].shopping_list_id \in DOMAIN lsts
                          /\ lsts[its[x].shopping_list_id].user_id = b} |-> its[i]],
     meals |-> [m \in {x \in DOMAIN mls : mls[x].user_id = b} |-> mls[m]],
     stats |-> st[b],
     ledger |-> SelectSeq(led, LAMBDA row : row.user_id = b)]

OthersRowsKept ==
    /\ \A b \in Users \ {last'.actor} :
          RowsOf(b, products', lists', items', meals', stats', ledger')
              = RowsOf(b, products, lists, items, meals, stats, ledger)
    /\ last'.status = "denied" => UNCHANGED dbvars

\* C9: a request of user A (edit, delete, waste, recycle a product; add, toggle,
\* delete an item; delete, complete a list; consume, recalculate, delete a meal
\* plan) leaves every row of every other user B as it was (products, lists, items,
\* meal plans, points, ledger rows), and a request refused for ownership changes
\* nothing at all.
C9_NoCrossUserWrites == [][OthersRowsKept]_vars

\* user 1 asked for a row of user 2, was refused, and the row is still there
C9_Witness ==
    /\ last.actor = 1 /\ last.status = "denied"
    /\ 1 \in DOMAIN products /\ products[1] = ProductRow(2, "Pasta", 2, "g", "Altro")

\* ---------------------------------------------------------------- claims: ledger
LedgerAppendOnly ==
    LET a == last'.award
        u == last'.actor
    IN  IF a.called /\ a.success
        THEN /\ ledger' = Append(ledger, [user_id |-> u, reward_type |-> "points",
                                          value |-> a.points_awarded])
             /\ stats'[u].points = stats[u].points + a.points_awarded
             /\ \A b \in Users \ {u} : stats'[b] = stats[b]
        ELSE ledger' = ledger /\ stats' = stats

\* C10: every step leaves the existing RewardHistory rows as they are; a request
\* whose award_points call succeeded appends exactly one row (the caller, type
\* 'points', value = the points awarded) and adds that amount to the caller's
\* points; a request whose award failed, or that made no award, adds no row and
\* leaves every user's points as they were.
C10_LedgerAppendOnly == [][LedgerAppendOnly]_vars

\* a second award has been recorded after the one for creating the list
C10_Witness ==
    /\ Len(ledger) = 2 /\ last.award.called /\ last.award.success
    /\ ledger[2] = RewardRow(last.actor, last.award.points_awarded)
    /\ ledger[1] = RewardRow(1, 5)

\* ---------------------------------------------------------------- text
\* the characters of the strings that the AI functions normalise and compare
Chars ==
    ("Latte intero" :> <<"L", "a", "t", "t", "e", " ", "i", "n", "t", "e", "r", "o">>) @@
    ("Riso" :> <<"R", "i", "s", "o">>) @@
    ("riso" :> <<"r", "i", "s", "o">>) @@
    ("Pasta" :> <<"P", "a", "s", "t", "a">>) @@
    ("latte" :> <<"l", "a", "t", "t", "e">>) @@
    (" Latte" :> <<" ", "L", "a", "t", "t", "e">>) @@
    ("Vegan" :> <<"V", "e", "g", "a", "n">>) @@
    ("Latte" :> <<"L", "a", "t", "t", "e">>) @@
    ("vegan" :> <<"v", "e", "g", "a", "n">>) @@
    ("" :> <<>>)

UpperCase == ("L" :> "l") @@ ("R" :> "r") @@ ("V" :> "v") @@ ("K" :> "k") @@ ("G" :> "g") @@ ("P" :> "p")

\* str.lower()
Lower(t) == [k \in 1..Len(t) |-> IF t[k] \in DOMAIN UpperCase THEN UpperCase[t[k]] ELSE t[k]]

RECURSIVE LStrip(_)
LStrip(t) == IF t # <<>> /\ Head(t) = " " THEN LStrip(Tail(t)) ELSE t

RECURSIVE RStrip(_)
RStrip(t) == IF t # <<>> /\ t[Len(t)] = " " THEN RStrip(SubSeq(t, 1, Len(t) - 1)) ELSE t

\* str.strip()
Strip(t) == RStrip(LStrip(t))

\* needle in hay (Python's substring test)
Contains(needle, hay) ==
    \E k \in 0..(Len(hay) - Len(needle)) : SubSeq(hay, k + 1, k + Len(needle)) = needle

\* _normalize_token(value): "" for a falsy value, else str(value).strip().lower()
_normalize_token(value) == IF value = "" THEN <<>> ELSE Lower(Strip(Chars[value]))

\* ---------------------------------------------------------------- recipes
\* _get_user_restrictions_and_allergies: <<restrictions_set, allergies_set>>
_get_user_restrictions_and_allergies(profs, user_id) ==
    << {_normalize_token(r) : r \in profs[user_id].dietary_restrictions} \ {<<>>},
       {_normalize_token(a) : a \in profs[user_id].allergies} \ {<<>>} >>

Recipe(name, ingredients, dietary_tags) ==
    [name |-> name, ingredients |-> ingredients, dietary_tags |-> dietary_tags]

\* some ingredient of the recipe contains one of the allergens
HasAllergen(recipe, allergies) ==
    \E k \in 1..Len(recipe.ingredients) :
        LET item_name == _normalize_token(recipe.ingredients[k])
        IN  item_name # <<>> /\ \E allergen \in allergies :
                                    allergen # <<>> /\ Contains(allergen, item_name)

\* the ingredients the assistant wrote as plain JSON strings, not as objects
\* with an 'item': (ing or {}).get('item') raises AttributeError on them
BareIngredients == {"Latte"}

RECURSIVE AllergenScan(_, _)
\* the loop over recipe['ingredients']: "match" at the first ingredient that
\* contains an allergen, "raise" at the first that is not an object, else "none"
AllergenScan(ingredients, allergies) ==
    IF ingredients = <<>> THEN "none"
    ELSE IF Head(ingredients) \in BareIngredients THEN "raise"
    ELSE LET item_name == _normalize_token(Head(ingredients))
         IN  IF item_name # <<>> /\ \E allergen \in allergies :
                                       allergen # <<>> /\ Contains(allergen, item_name)
             THEN "match"
             ELSE AllergenScan(Tail(ingredients), allergies)

\* _recipe_violates_preferences(recipe, restrictions, allergies); an exception
\* inside is caught and gives False
_recipe_violates_preferences(recipe, restrictions, allergies) ==
    LET scan == IF allergies = {} THEN "none"
                ELSE AllergenScan(recipe.ingredients, allergies)
        tags == {_normalize_token(t) : t \in recipe.dietary_tags}
    IN  IF scan = "match" THEN TRUE
        ELSE IF scan = "raise" THEN FALSE
        ELSE restrictions # {} /\ tags # {} /\ \E r \in restrictions : r \notin tags

\* f'Ricetta con {products[i].name}'
FallbackRecipeName ==
    ("Latte intero" :> "Ricetta con Latte intero") @@ ("Riso" :> "Ricetta con Riso")
        @@ ("Pasta" :> "Ricetta con Pasta")

\* a fallback that gives up: no recipe
_generate_no_recipes(prods, max_recipes) == <<>>

\* _generate_fallback_recipes(products, max_recipes): recipe i is named after
\* products[i] and lists products[i:i+3] as its ingredients
_generate_fallback_recipes(prods, max_recipes) ==
    [i \in 1..Min(Min(max_recipes, Len(prods)), 3) |->
        Recipe(FallbackRecipeName[prods[i].name],
               [k \in 1..(Min(i + 2, Len(prods)) - i + 1) |-> prods[i + k - 1].name],
               {})]

\* the outcomes of the call to the chat-completion endpoint
UpstreamFailures ==
    {"no_key", "non200", "timeout", "body_not_json", "empty_content", "content_not_json",
     "unexpected_shape"}

\* ai_generate_recipe_suggestions: the upstream's recipes, [] on every failure
\* (db = "profile_error": the profile query raises, caught by except Exception)
ai_generate_recipe_suggestions(ingredients, upstream, db) ==
    IF upstream.kind = "no_key" THEN <<>>
    ELSE IF ingredients = <<>> THEN <<>>
    ELSE IF db = "profile_error" THEN <<>>
    ELSE IF upstream.kind = "ok" THEN upstream.recipes
    ELSE <<>>

\* suggest_recipes(user_id, max_recipes): what it returns.  order is the order in
\* which the query returns the user's non-wasted products; db is the database
\* outcome: "ok", "products_error" (the product query raises), "profile_error"
\* (the profile query in ai_generate_recipe_suggestions raises), "filter_error"
\* (the profile query of the filter raises)
suggest_recipes(prods, profs, user_id, max_recipes, order, upstream, db) ==
    LET rows == [k \in 1..Len(order) |-> prods[order[k]]]
        recipes == ai_generate_recipe_suggestions(rows, upstream, db)
        prefs == _get_user_restrictions_and_allergies(profs, user_id)
        filtered == IF db = "filter_error" \/ (prefs[1] = {} /\ prefs[2] = {})
                    THEN recipes
                    ELSE SelectSeq(recipes,
                            LAMBDA r : ~_recipe_violates_preferences(r, prefs[1], prefs[2]))
    IN  IF db = "products_error" THEN [raised |-> FALSE, value |-> <<>>]
        ELSE IF rows = <<>> THEN [raised |-> FALSE, value |-> <<>>]
        ELSE IF recipes = <<>>
        THEN [raised |-> FALSE,
              value |-> _generate_fallback_recipes(SubSeq(rows, 1, Min(5, Len(rows))),
                                                   max_recipes)]
        ELSE [raised |-> FALSE, value |-> filtered]

\* ---------------------------------------------------------------- meal plan AI
MealTypes == <<"breakfast", "lunch", "dinner", "snack">>

\* meal_templates of _generate_basic_meal_plan (the names; the macros go with them)
meal_templates ==
    [breakfast |-> <<"Omelette con verdure", "Porridge con frutta", "Yogurt con granola">>,
     lunch |-> <<"Insalata di pollo", "Pasta integrale", "Riso con verdure">>,
     dinner |-> <<"Salmone al forno", "Pollo alla griglia", "Pesce spada">>,
     snack |-> <<"Frutta fresca", "Yogurt greco", "Smoothie">>]

\* the `days` argument: an int n, or a value that is not an int (the route passes
\* request.json.get('days', 7) as it comes: a string, null, a float, a list)
IntDays(n) == [int |-> TRUE, n |-> n]
NotIntDays == [int |-> FALSE, n |-> 0]
DaysInputs == {IntDays(0), IntDays(1), NotIntDays}

\* the draws of random.choice for the meals of a plan of n days
TemplateChoices(n) == [(0..(n - 1)) \X (1..4) -> 1..3]

Returned(value) == [raised |-> FALSE, value |-> value]
\* the call ends with an exception
Raised == [raised |-> TRUE, value |-> <<>>]

Meal(meal_type, name, calories) ==
    [meal_type |-> meal_type, name |-> name, calories |-> calories]

\* a plan that leaves the snack out
BasicPlanNoSnack(n, choice) ==
    [day \in 0..(n - 1) |->
        [t \in 1..3 |-> [meal_type |-> MealTypes[t],
                         name |-> meal_templates[MealTypes[t]][choice[<<day, t>>]]]]]

\* the plan _generate_basic_meal_plan builds for an int days with the draws `choice`
BasicPlan(n, choice) ==
    [day \in 0..(n - 1) |->
        [t \in 1..4 |-> [meal_type |-> MealTypes[t],
                         name |-> meal_templates[MealTypes[t]][choice[<<day, t>>]]]]]

\* _generate_basic_meal_plan(days): range(days) raises TypeError when days is not an int
_generate_basic_meal_plan(days, choice) ==
    IF ~days.int THEN Raised ELSE Returned(BasicPlan(days.n, choice))

\* what the assistant may answer under "meal_plan": day index -> meals
AIMealPlans ==
    { (0 :> <<Meal("lunch", "Pasta al pomodoro", 400)>>),
      (0 :> <<Meal("lunch", "Pasta al pomodoro", 400)>>) @@
      (1 :> <<Meal("dinner", "Zuppa", 0 - 50)>>),
      (6 :> <<Meal("dinner", "Zuppa", 300)>>) }

\* _validate_and_normalize_meal_plan(meal_plan, days): the days below `days`, the
\* macros clamped at 0; `day_index < days` raises for a days that is not an int and
\* the except branch calls _generate_basic_meal_plan(days)
_validate_and_normalize_meal_plan(meal_plan, days, choice) ==
    IF ~days.int THEN _generate_basic_meal_plan(days, choice)
    ELSE Returned([day \in {d \in DOMAIN meal_plan : d < days.n} |->
                      [k \in 1..Len(meal_plan[day]) |->
                          [meal_plan[day][k] EXCEPT !.calories = Max(0, @)]]])

\* ai_generate_weekly_meal_plan: every failure returns _generate_basic_meal_plan(days)
ai_generate_weekly_meal_plan(days, upstream, choice) ==
    IF upstream.kind # "ok" THEN _generate_basic_meal_plan(days, choice)
    ELSE LET normalized == _validate_and_normalize_meal_plan(upstream.meal_plan, days, choice)
         IN  IF normalized.raised THEN _generate_basic_meal_plan(days, choice)
             ELSE normalized

\* ai_optimize_meal_planning(user_id, days): db = "error" is a query that raises.
\* Every path that does not return the assistant's plan ends in
\* _generate_basic_meal_plan(days), the one of the except branch included.
ai_optimize_meal_planning(prods, user_id, days, upstream, db, choice) ==
    LET pantry == {p \in DOMAIN prods : prods[p].user_id = user_id /\ ~prods[p].wasted}
        meal_plan == ai_generate_weekly_meal_plan(days, upstream, choice)
    IN  IF db = "error" THEN _generate_basic_meal_plan(days, choice)
        ELSE IF pantry = {} THEN _generate_basic_meal_plan(days, choice)
        ELSE IF meal_plan.raised THEN _generate_basic_meal_plan(days, choice)
        ELSE IF DOMAIN meal_plan.value = {} THEN _generate_basic_meal_plan(days, choice)
        ELSE meal_plan

\* ---------------------------------------------------------------- chatbot
\* the branch of _generate_fallback_chat_response a message falls in (keywords)
FallbackReply ==
    ("che ricetta cucino?" :> "Perfetto! Posso aiutarti a trovare ricette") @@
    ("ciao" :> "Sono qui per aiutarti!") @@
    ("" :> "Sono qui per aiutarti!")

FallbackSuggestions ==
    ("che ricetta cucino?" :> <<"Mostra i miei ingredienti", "Suggerisci ricette veloci">>) @@
    ("ciao" :> <<"Cosa ho in dispensa?", "Suggerisci ricette">>) @@
    ("" :> <<"Cosa ho in dispensa?", "Suggerisci ricette">>)

\* _generate_fallback_chat_response(user_message), at the time `now`
_generate_fallback_chat_response(user_message, now) ==
    [success |-> TRUE, response |-> FallbackReply[user_message], type |-> "text",
     suggestions |-> FallbackSuggestions[user_message], actions |-> <<>>, data |-> <<>>,
     timestamp |-> now]

\* the JSON objects the assistant may answer to the chatbot
AIChatAnswers ==
    { [response |-> "Hai 2 prodotti in dispensa", type |-> "text",
       suggestions |-> <<"Vedi la dispensa">>, actions |-> <<"open_pantry">>] }

\* _validate_chat_response(data) for a dict data
_validate_chat_response(data, now) ==
    [success |-> TRUE, response |-> data.response, type |-> data.type,
     suggestions |-> data.suggestions, actions |-> data.actions, data |-> <<>>,
     timestamp |-> now]

\* the raw text reported as a failure
RawTextAsFailure(content, now) ==
    [success |-> FALSE, response |-> content, type |-> "text", suggestions |-> <<>>,
     data |-> <<>>, timestamp |-> now]

\* the dict ai_chatbot_response builds from a content that is not JSON (content[:500])
RawTextResponse(content, now) ==
    [success |-> TRUE, response |-> content, type |-> "text", suggestions |-> <<>>,
     data |-> <<>>, timestamp |-> now]

\* the assistant's content when it is not JSON: text, or blanks only
PlainContents == {"Certo, ecco un consiglio", "   "}
\* content.strip()
StripContent == ("Certo, ecco un consiglio" :> "Certo, ecco un consiglio") @@ ("   " :> "")

\* ai_chatbot_response(user_message, user_id, conversation_context)
ai_chatbot_response(user_message, upstream, now) ==
    IF upstream.kind = "ok" THEN _validate_chat_response(upstream.answer, now)
    ELSE IF upstream.kind = "unexpected_shape"
    THEN _generate_fallback_chat_response("", now)
    ELSE IF upstream.kind = "content_not_json" /\ StripContent[upstream.content] # ""
    THEN RawTextResponse(StripContent[upstream.content], now)
    ELSE _generate_fallback_chat_response(user_message, now)

\* ---------------------------------------------------------------- recycling
\* the group of recycling options the fallback gives for a category
RecyclingGroup ==
    ("verdura" :> "composting") @@ ("latticini" :> "disposal") @@ ("Altro" :> "disposal")

ExpiredInputs ==
    { <<>>,
      <<[name |-> "Latte intero", category |-> "latticini"]>>,
      <<[name |-> "Latte intero", category |-> "latticini"],
        [name |-> "Riso", category |-> "Altro"]>> }

\* _generate_fallback_recycling_suggestions(expired_products); db = "error": reading
\* a product's attributes raises, the except branch answers
_generate_fallback_recycling_suggestions(expired_products, db) ==
    IF db = "error" /\ expired_products # <<>>
    THEN [success |-> FALSE, suggestions |-> <<>>]
    ELSE [success |-> TRUE,
          suggestions |-> [k \in 1..Len(expired_products) |->
                              [product_name |-> expired_products[k].name,
                               recycling_options |->
                                   RecyclingGroup[expired_products[k].category]]],
          total_products |-> Len(expired_products)]

\* _validate_and_enrich_recycling_suggestions: the suggestions that name one of the
\* expired products (the assistant's suggestions: a sequence of product names)
_validate_and_enrich_recycling_suggestions(suggestions, expired_products) ==
    LET enriched == SelectSeq(suggestions,
                       LAMBDA n : \E k \in 1..Len(expired_products) :
                                     expired_products[k].name = n)
    IN  [success |-> TRUE,
         suggestions |-> [k \in 1..Len(enriched) |->
                             [product_name |-> enriched[k], recycling_options |-> "ai"]],
         total_products |-> Len(enriched)]

AIRecyclingAnswers == {<<"Latte intero">>, <<"Burro">>}

\* ai_suggest_food_recycling(expired_products, user_id)
ai_suggest_food_recycling(expired_products, upstream, db) ==
    IF upstream.kind = "no_key"
    THEN _generate_fallback_recycling_suggestions(expired_products, db)
    ELSE IF expired_products = <<>> THEN [success |-> TRUE, suggestions |-> <<>>]
    ELSE IF db = "error" THEN _generate_fallback_recycling_suggestions(expired_products, db)
    ELSE IF upstream.kind = "ok"
    THEN _validate_and_enrich_recycling_suggestions(upstream.suggestions, expired_products)
    ELSE _generate_fallback_recycling_suggestions(expired_products, db)

\* ---------------------------------------------------------------- calories, analytics
base_calories == [breakfast |-> 400, lunch |-> 600, dinner |-> 700, snack |-> 200]

\* _estimate_calories_fallback(meal_type): base_calories.get(meal_type, 500)
_estimate_calories_fallback(meal_type) ==
    IF meal_type \in DOMAIN base_calories THEN base_calories[meal_type] ELSE 500

AICalories == {0 - 50, 350}
EstimateMealTypes == {"lunch", "brunch"}

\* ai_estimate_meal_calories(meal_description, meal_type): the 'calories' it returns
ai_estimate_meal_calories(meal_type, upstream) ==
    IF upstream.kind = "ok" THEN upstream.calories
    ELSE _estimate_calories_fallback(meal_type)

\* get_comprehensive_analytics(user_id, days, include_family): the keys of the dict
get_comprehensive_analytics(db) ==
    IF db = "error" THEN {"error", "nutrition", "waste", "shopping", "trends"}
    ELSE {"nutrition", "waste", "shopping", "trends", "period", "scope"}

\* ---------------------------------------------------------------- SpecAI
\* what the upstream endpoint does for a call: one of the failures, or an answer
Upstream(kind, answer) == [kind |-> kind, answer |-> answer]

AIRecipeAnswers ==
    { <<Recipe("Risotto", <<"Riso">>, {"vegan"})>>,
      <<Recipe("Budino di riso", <<"Latte intero", "Riso">>, {}),
        Recipe("Risotto", <<"Riso">>, {"vegan"})>> }

\* the pantries SpecAI starts from (all rows of user 1)
AIPantries ==
    { NoRows,
      (1 :> ProductRow(1, "Riso", 1, "kg", "Altro")),
      (1 :> ProductRow(1, "Latte intero", 1, "l", "latticini")),
      (1 :> ProductRow(1, "Latte intero", 1, "l", "latticini")) @@
      (2 :> ProductRow(1, "Riso", 1, "kg", "Altro")),
      (1 :> [ProductRow(1, "Latte intero", 1, "l", "latticini") EXCEPT !.wasted = TRUE]) @@
      (2 :> ProductRow(1, "Riso", 1, "kg", "Altro")) }

\* the profiles user 1 may have saved
AIProfiles ==
    { [allergies |-> {}, dietary_restrictions |-> {}],
      [allergies |-> {"latte"}, dietary_restrictions |-> {}],
      [allergies |-> {" Latte"}, dietary_restrictions |-> {}],
      [allergies |-> {}, dietary_restrictions |-> {"Vegan"}] }

InitAI ==
    /\ products \in AIPantries
    /\ \E profile \in AIProfiles : profiles = [NoProfiles EXCEPT ![1] = profile]
    /\ lists = NoRows /\ items = NoRows /\ meals = NoRows
    /\ stats = Registered
    /\ ledger = <<>>
    /\ nextId = [product |-> 3, list |-> 1, item |-> 1, meal |-> 1]
    /\ last = Request(0, "none")
    /\ ai = AIIdle
    /\ cap = [product |-> MaxProducts, list |-> MaxLists, item |-> MaxItems,
              meal |-> MaxMeals, ledger |-> MaxLedger, quantity |-> MaxQuantity]
    /\ NoStatistics

\* a call of an AI function: ai records the arguments, the outcomes and the result
Call(record) ==
    /\ ai = AIIdle
    /\ ai' = record
    /\ UNCHANGED <<dbvars, last, cap, statvars, profiles>>

RecipeDbOutcomes == {"ok", "products_error", "profile_error", "filter_error"}
DbOutcomes == {"ok", "error"}
MaxRecipesInputs == {2, 5}
Clock == {1, 2}
ChatMessages == {"che ricetta cucino?", "ciao"}

\* suggest_recipes(user_id, max_recipes)
SuggestRecipes(u, max_recipes, order, upstream, db) ==
    Call([fn |-> "suggest_recipes", user_id |-> u, max_recipes |-> max_recipes,
          order |-> order, upstream |-> upstream.kind, db |-> db,
          out |-> suggest_recipes(products, profiles, u, max_recipes, order, upstream, db)])

\* ai_optimize_meal_planning(user_id, days)
OptimizeMealPlanning(u, days, upstream, db, choice) ==
    Call([fn |-> "ai_optimize_meal_planning", user_id |-> u, days |-> days,
          upstream |-> upstream.kind, db |-> db,
          out |-> ai_optimize_meal_planning(products, u, days,
                      [kind |-> upstream.kind, meal_plan |-> upstream.answer], db, choice)])

\* ai_chatbot_response(user_message, user_id, conversation_context)
ChatbotResponse(u, user_message, upstream, content, now) ==
    Call([fn |-> "ai_chatbot_response", user_id |-> u, user_message |-> user_message,
          upstream |-> upstream.kind, content |-> content, now |-> now,
          out |-> Returned(ai_chatbot_response(user_message,
                      [kind |-> upstream.kind, answer |-> upstream.answer,
                       content |-> content], now))])

\* ai_suggest_food_recycling(expired_products, user_id)
SuggestFoodRecycling(u, expired_products, upstream, db) ==
    Call([fn |-> "ai_suggest_food_recycling", user_id |-> u,
          expired_products |-> expired_products, upstream |-> upstream.kind, db |-> db,
          out |-> Returned(ai_suggest_food_recycling(expired_products,
                      [kind |-> upstream.kind, suggestions |-> upstream.answer], db))])

\* ai_estimate_meal_calories(meal_description, meal_type)
EstimateMealCalories(meal_type, upstream) ==
    Call([fn |-> "ai_estimate_meal_calories", meal_type |-> meal_type,
          upstream |-> upstream.kind,
          out |-> Returned(ai_estimate_meal_calories(meal_type,
                      [kind |-> upstream.kind, calories |-> upstream.answer]))])

\* get_comprehensive_analytics(user_id, days, include_family)
ComprehensiveAnalytics(u, db) ==
    Call([fn |-> "get_comprehensive_analytics", user_id |-> u, db |-> db,
          out |-> Returned(get_comprehensive_analytics(db))])

\* the caller takes the value and answers its request
Deliver ==
    /\ ai # AIIdle
    /\ ai' = AIIdle
    /\ UNCHANGED <<dbvars, last, cap, statvars, profiles>>

\* the outcomes of the upstream call when the assistant may answer one of `answers`
Upstreams(answers) ==
    {Upstream(k, <<>>) : k \in UpstreamFailures} \cup {Upstream("ok", a) : a \in answers}

NextAI ==
    \/ \E u \in Users, mr \in MaxRecipesInputs, up \in Upstreams(AIRecipeAnswers),
          db \in RecipeDbOutcomes :
          \E order \in Orders({p \in DOMAIN products :
                                  products[p].user_id = u /\ ~products[p].wasted}) :
             SuggestRecipes(u, mr, order, [kind |-> up.kind, recipes |-> up.answer], db)
    \/ \E u \in {1}, days \in DaysInputs, up \in Upstreams(AIMealPlans),
          db \in DbOutcomes :
          \E choice \in TemplateChoices(days.n) :
             OptimizeMealPlanning(u, days, up, db, choice)
    \/ \E u \in Users, m \in ChatMessages, up \in Upstreams(AIChatAnswers),
          now \in Clock :
          \E content \in IF up.kind = "content_not_json" THEN PlainContents ELSE {""} :
             ChatbotResponse(u, m, up, content, now)
    \/ \E u \in Users, ex \in ExpiredInputs, up \in Upstreams(AIRecyclingAnswers),
          db \in DbOutcomes : SuggestFoodRecycling(u, ex, up, db)
    \/ \E mt \in EstimateMealTypes, up \in Upstreams(AICalories) :
          EstimateMealCalories(mt, up)
    \/ \E u \in Users, db \in DbOutcomes : ComprehensiveAnalytics(u, db)
    \/ Deliver

SpecAI == InitAI /\ [][NextAI]_vars

\* ---------------------------------------------------------------- claims: AI
\* the products suggest_recipes read, in the order the query returned them
RowsRead == [k \in 1..Len(ai.order) |-> products[ai.order[k]]]

\* the chat-completion endpoint was called by suggest_recipes: the user has a
\* product and the queries before the call did not raise
RecipesUpstreamCalled ==
    ai.order # <<>> /\ ai.db \in {"ok", "filter_error"} /\ ai.upstream # "no_key"

\* the fallback recipes for the products read
FallbackForRowsRead ==
    _generate_fallback_recipes(SubSeq(RowsRead, 1, Min(5, Len(RowsRead))), ai.max_recipes)

\* C3: for a user with declared allergens, no recipe returned by suggest_recipes,
\* on any return path, has an ingredient whose name contains one of the allergens
\* (case-insensitive substring).
C3_NoAllergenReturned ==
    ai.fn = "suggest_recipes" =>
        LET allergies == _get_user_restrictions_and_allergies(profiles, ai.user_id)[2]
        IN  \A k \in 1..Len(ai.out.value) : ~HasAllergen(ai.out.value[k], allergies)

\* the user is allergic to "latte" and is handed "Ricetta con Latte intero"
C3_Witness ==
    /\ ai.fn = "suggest_recipes" /\ ai.upstream = "non200" /\ ai.db = "ok"
    /\ "latte" \in profiles[ai.user_id].allergies
    /\ ai.out.value # <<>>
    /\ ai.out.value[1] = Recipe("Ricetta con Latte intero", <<"Latte intero">>, {})

\* C4: when the upstream endpoint answers suggest_recipes' call with a status that
\* is not 200, suggest_recipes raises nothing and returns a non-empty list: the
\* recipes of _generate_fallback_recipes for the first five products read.
C4_Non200GivesFallback ==
    (ai.fn = "suggest_recipes" /\ ai.upstream = "non200" /\ RecipesUpstreamCalled) =>
        /\ ~ai.out.raised
        /\ ai.out.value # <<>>
        /\ ai.out.value = FallbackForRowsRead

\* a non-200 answer for a pantry of two products: two fallback recipes
C4_Witness ==
    /\ ai.fn = "suggest_recipes" /\ ai.upstream = "non200" /\ RecipesUpstreamCalled
    /\ Len(ai.out.value) = 2
    /\ ai.out.value[2].name = "Ricetta con Riso"

\* C5: whatever the upstream and the database do, suggest_recipes,
\* ai_optimize_meal_planning, ai_chatbot_response, ai_suggest_food_recycling,
\* ai_estimate_meal_calories and get_comprehensive_analytics return a value and
\* never raise.
C5_NeverRaises == ai.fn # "idle" => ~ai.out.raised

\* ai_optimize_meal_planning raised for a days that is not an int
C5_Witness ==
    /\ ai.fn = "ai_optimize_meal_planning" /\ ~ai.days.int
    /\ ai.upstream = "non200" /\ ai.db = "ok"
    /\ ai.out.raised

ChatKeys == {"success", "response", "type", "suggestions", "actions", "data", "timestamp"}
RecyclingKeys == {"success", "suggestions", "total_products"}

\* C6: the dict returned by ai_chatbot_response, and the one returned by
\* ai_suggest_food_recycling, has the same top-level keys on every return path
\* (the keys of the successful answer).
C6_SameKeysOnEveryPath ==
    /\ ai.fn = "ai_chatbot_response" => DOMAIN ai.out.value = ChatKeys
    /\ ai.fn = "ai_suggest_food_recycling" => DOMAIN ai.out.value = RecyclingKeys

\* no expired product and an API key: a dict without 'total_products'
C6_Witness ==
    /\ ai.fn = "ai_suggest_food_recycling" /\ ai.expired_products = <<>>
    /\ ai.upstream = "ok"
    /\ DOMAIN ai.out.value = {"success", "suggestions"}

\* the content of the assistant could not be parsed as JSON
UnparseableContent ==
    /\ ai.fn \in {"suggest_recipes", "ai_optimize_meal_planning", "ai_chatbot_response",
                  "ai_suggest_food_recycling"}
    /\ ai.upstream = "content_not_json"

\* the outcomes _generate_basic_meal_plan(days) may have
BasicMealPlans(days) == {_generate_basic_meal_plan(days, c) : c \in TemplateChoices(days.n)}

FallbackOnUnparseable ==
    /\ (ai.fn = "suggest_recipes" /\ RecipesUpstreamCalled) =>
          ai.out = Returned(FallbackForRowsRead)
    /\ ai.fn = "ai_optimize_meal_planning" => ai.out \in BasicMealPlans(ai.days)
    /\ (ai.fn = "ai_suggest_food_recycling" /\ ai.expired_products # <<>>) =>
          ai.out = Returned(_generate_fallback_recycling_suggestions(
                                ai.expired_products, ai.db))

FailingMealPlanCall ==
    ai.fn = "ai_optimize_meal_planning" /\ ai.upstream # "ok" /\ ai.days.int

\* the call ended in the chatbot's fallback generator
FailingChatCall ==
    /\ ai.fn = "ai_chatbot_response"
    /\ ai.upstream \in UpstreamFailures \ {"content_not_json", "unexpected_shape"}

BasicPlanShape(plan, n) ==
    /\ DOMAIN plan = 0..(n - 1)
    /\ \A day \in DOMAIN plan :
          /\ Len(plan[day]) = 4
          /\ \A t \in 1..4 :
                /\ plan[day][t].meal_type = MealTypes[t]
                /\ \E k \in 1..3 : plan[day][t].name = meal_templates[MealTypes[t]][k]

RewardMaxAwards == 2
RewardMaxLists == 2
RewardMaxQuantity == 6

\* the number of products user 1 has recycled before (10 points each)
RecycledBefore == {0, 9, 10}
\* float(request.form.get('waste_percentage', 100)): any number the form holds
RewardWastePercentages == {-200, 50, 100}

\* user 1 has a product of 2 g and has recycled n products, 10 points each
InitRewards ==
    \E n \in RecycledBefore :
        /\ products = (1 :> ProductRow(1, "Pasta", 2, "g", "Altro"))
        /\ lists = NoRows
        /\ items = NoRows
        /\ meals = NoRows
        /\ stats = [Registered EXCEPT ![1] =
                       [points |-> 10 * n, level |-> calculate_level(10 * n)]]
        /\ ledger = [i \in 1..n |-> RewardRow(1, 10)]
        /\ nextId = [product |-> 2, list |-> 1, item |-> 1, meal |-> 1]
        /\ last = Request(0, "none")
        /\ ai = AIIdle
        /\ profiles = NoProfiles
        /\ cap = [product |-> 1, list |-> RewardMaxLists, item |-> 1, meal |-> 1,
                  ledger |-> n + RewardMaxAwards, quantity |-> RewardMaxQuantity]
        /\ NoStatistics

\* the requests that award points
NextRewards ==
    \E u \in Users :
        \/ \E p \in 1..cap.product, w \in RewardWastePercentages, f \in Failures :
              waste_product(u, p, w, f)
        \/ \E p \in 1..cap.product, f \in Failures : recycle_product(u, p, f)
        \/ \E f \in Failures : create_shopping_list(u, f)

SpecRewards == InitRewards /\ [][NextRewards]_vars

\* ---------------------------------------------------------------- claims: level
\* C11: in every reachable state the stored level of every user is
\* floor(sqrt(points / 100)) + 1 of the stored points.
C11_LevelDerivedFromPoints ==
    \A u \in Users :
        /\ stats[u].points >= 0
        /\ stats[u].level = IntSqrtHundredth(stats[u].points) + 1

\* points were taken back by an award of a negative amount and the level stayed
C11_Witness ==
    /\ last.status = "ok" /\ last.award.success /\ last.award.points_awarded < 0
    /\ stats[1].points = 90 /\ stats[1].level = 2

\* ---------------------------------------------------------------- analytics
\* the rows each analytics table may hold in a behaviour
MaxRows == 2
Dates == {1, 2}

\* __table_args__: DailyNutrition declares UniqueConstraint('user_id', 'date');
\* WasteAnalytics and ShoppingAnalytics declare an index only
UniqueConstraint == [daily |-> TRUE, waste |-> FALSE, shopping |-> FALSE]

DayRow(user_id, date, value) == [user_id |-> user_id, date |-> date, value |-> value]

\* the rows of a table for (user_id, date)
RowsFor(table, user_id, date) ==
    {i \in 1..Len(table) : table[i].user_id = user_id /\ table[i].date = date}

\* get_user_family(user_id): the family the user is a member of, if any
get_user_family(fam, user_id) == IF user_id \in fam THEN fam ELSE {}

\* a MealPlan row with its date, shared flag and macros
MealRow(user_id, date, is_shared, calories, protein) ==
    [user_id |-> user_id, date |-> date, is_shared |-> is_shared,
     custom_meal |-> <<>>, calories |-> calories, protein |-> protein]

\* the sum of one macro over a set of meals, each divided by n
MacroSum(mls, S, macro, n) == SumOver(S, [m \in S |-> mls[m][macro] \div n])

\* totals in which a shared meal counts in full for every member
DailyTotalsUndivided(mls, fam, user_id, date, include_family) ==
    LET mine == {m \in DOMAIN mls : mls[m].date = date /\
                    \/ mls[m].user_id = user_id /\ ~mls[m].is_shared
                    \/ include_family /\ mls[m].is_shared
                          /\ mls[m].user_id \in get_user_family(fam, user_id)}
    IN  [calories |-> MacroSum(mls, mine, "calories", 1),
         protein |-> MacroSum(mls, mine, "protein", 1)]

\* update_daily_nutrition: the totals of the day
DailyTotals(mls, fam, user_id, date, include_family) ==
    LET personal_meals == {m \in DOMAIN mls : /\ mls[m].user_id = user_id
                                               /\ mls[m].date = date
                                               /\ ~mls[m].is_shared}
        member_ids == get_user_family(fam, user_id)
        family_shared_meals == {m \in DOMAIN mls : /\ mls[m].user_id \in member_ids
                                                    /\ mls[m].date = date
                                                    /\ mls[m].is_shared}
        family_size == IF member_ids = {} THEN 1 ELSE Cardinality(member_ids)
        total(macro) ==
            IF include_family
            THEN MacroSum(mls, personal_meals, macro, 1)
                 + MacroSum(mls, family_shared_meals, macro, family_size)
            ELSE MacroSum(mls, personal_meals, macro, 1)
    IN  [calories |-> total("calories"), protein |-> total("protein")]

\* update_waste_analytics: products_wasted
WasteTotals(prods, user_id) ==
    Cardinality({p \in DOMAIN prods : prods[p].user_id = user_id /\ prods[p].wasted})

\* update_shopping_analytics: the completed lists of the user
ShoppingTotals(lsts, user_id) ==
    Cardinality({l \in DOMAIN lsts : lsts[l].user_id = user_id /\ lsts[l].completed})

\* the first half of update_*: the totals are computed and
\* X.query.filter_by(user_id=user_id, date=date).first() is read (0: None)
FindRow(s, tbl, user_id, date, include_family, value) ==
    /\ sessions[s] = Idle
    /\ LET rows == RowsFor(analytics[tbl], user_id, date)
       IN  \E found \in (IF rows = {} THEN {0} ELSE rows) :
               sessions' = [sessions EXCEPT ![s] =
                   [pc |-> "found", table |-> tbl, user_id |-> user_id, date |-> date,
                    include_family |-> include_family, value |-> value,
                    found |-> found]]
    /\ UNCHANGED <<dbvars, last, ai, cap, profiles, analytics, family>>

\* the second half of update_*: the row read is updated, or a new row is added,
\* and db.session.commit(); a commit refused by the unique constraint is rolled
\* back and the function returns False
SaveRow(s, tbl) ==
    /\ sessions[s].pc = "found" /\ sessions[s].table = tbl
    /\ LET c == sessions[s]
           table == analytics[tbl]
           refused == UniqueConstraint[tbl] /\ RowsFor(table, c.user_id, c.date) # {}
       IN  IF c.found # 0
           THEN analytics' = [analytics EXCEPT ![tbl][c.found].value = c.value]
           ELSE IF refused
           THEN UNCHANGED analytics
           ELSE /\ Len(table) < MaxRows
                /\ analytics' = [analytics EXCEPT ![tbl] =
                                    Append(@, DayRow(c.user_id, c.date, c.value))]
    /\ sessions' = [sessions EXCEPT ![s] = Idle]
    /\ UNCHANGED <<dbvars, last, ai, cap, profiles, family>>

\* update_daily_nutrition(user_id, date, include_family), in its two halves
update_daily_nutrition_find(s, user_id, date, include_family) ==
    FindRow(s, "daily", user_id, date, include_family,
            DailyTotals(meals, family, user_id, date, include_family))
update_daily_nutrition_save(s) == SaveRow(s, "daily")

\* update_waste_analytics(user_id, date), in its two halves
update_waste_analytics_find(s, user_id, date) ==
    FindRow(s, "waste", user_id, date, FALSE, WasteTotals(products, user_id))
update_waste_analytics_save(s) == SaveRow(s, "waste")

\* update_shopping_analytics(user_id, date), in its two halves
update_shopping_analytics_find(s, user_id, date) ==
    FindRow(s, "shopping", user_id, date, FALSE, ShoppingTotals(lists, user_id))
update_shopping_analytics_save(s) == SaveRow(s, "shopping")

\* update_daily_nutrition run by a request with no other request beside it: the
\* DailyNutrition table after the call
update_daily_nutrition(daily, mls, fam, user_id, date, include_family) ==
    LET rows == RowsFor(daily, user_id, date)
        value == DailyTotals(mls, fam, user_id, date, include_family)
    IN  IF rows = {}
        THEN Append(daily, DayRow(user_id, date, value))
        ELSE LET nutrition == CHOOSE i \in rows : \A j \in rows : i <= j
             IN  [daily EXCEPT ![nutrition].value = value]

\* what ai_estimate_meal_calories may answer (AI answer or fallback), per serving
NutritionEstimates == {[calories |-> 0, protein |-> 0], [calories |-> 600, protein |-> 20]}

\* GET/POST /meal-planning (POST): servings = form value or 2
meal_planning(u, date, is_shared, custom_meal, nutrition, servings_form, f) ==
    LET servings == IF servings_form = 0 THEN 2 ELSE servings_form
        meal_plan == [MealRow(u, date, is_shared, nutrition.calories * servings,
                              nutrition.protein * servings)
                         EXCEPT !.custom_meal = custom_meal]
        saved == Put(meals, nextId.meal, meal_plan)
    IN  IF f = "commit" THEN Reject(u, "error")
        ELSE /\ nextId.meal <= cap.meal
             /\ meals' = saved
             /\ nextId' = [nextId EXCEPT !.meal = @ + 1]
             /\ analytics' = [analytics EXCEPT !.daily =
                    update_daily_nutrition(@, saved, family, u, date, FALSE)]
             /\ last' = Request(u, "ok")
             /\ UNCHANGED <<products, lists, items, stats, ledger, ai, cap, profiles,
                            sessions, family>>

\* ---------------------------------------------------------------- SpecAnalytics
\* user 1 has wasted a product, completed a shopping list and planned a meal
InitAnalytics ==
    /\ products = (1 :> [ProductRow(1, "Pasta", 2, "g", "Altro") EXCEPT !.wasted = TRUE])
    /\ lists = (1 :> [user_id |-> 1, completed |-> TRUE])
    /\ items = NoRows
    /\ meals = (1 :> MealRow(1, 1, FALSE, 600, 20))
    /\ stats = Registered
    /\ ledger = <<>>
    /\ nextId = [product |-> 2, list |-> 2, item |-> 1, meal |-> 2]
    /\ last = Request(0, "none")
    /\ ai = AIIdle
    /\ profiles = NoProfiles
    /\ cap = [product |-> 1, list |-> 1, item |-> 1, meal |-> 1, ledger |-> 1,
              quantity |-> 2]
    /\ NoStatistics

\* requests of user 1, run by concurrent workers against one database
NextAnalytics ==
    \E s \in SessionIds, u \in {1} :
        \/ \E d \in Dates : update_daily_nutrition_find(s, u, d, FALSE)
        \/ update_daily_nutrition_save(s)
        \/ \E d \in Dates : update_waste_analytics_find(s, u, d)
        \/ update_waste_analytics_save(s)
        \/ \E d \in Dates : update_shopping_analytics_find(s, u, d)
        \/ update_shopping_analytics_save(s)

SpecAnalytics == InitAnalytics /\ [][NextAnalytics]_vars

\* ---------------------------------------------------------------- claims: analytics
\* C12: in every reachable state, concurrent requests included, each of
\* DailyNutrition, WasteAnalytics and ShoppingAnalytics holds at most one row
\* for every (user, date).
C12_OneRowPerUserAndDate ==
    \A tbl \in DOMAIN analytics, u \in Users, d \in Dates :
        Cardinality(RowsFor(analytics[tbl], u, d)) <= 1

\* two requests found no WasteAnalytics row of user 1 for day 1 and each added one
C12_Witness ==
    /\ Cardinality(RowsFor(analytics.waste, 1, 1)) = 2
    /\ Cardinality(RowsFor(analytics.daily, 1, 1)) <= 1

\* ---------------------------------------------------------------- SpecNutrition
NutritionMaxMeals == 2
\* the families of the two users: none, user 1 alone, both
Families == {{}, {1}, {1, 2}}

InitNutrition ==
    /\ products = NoRows /\ lists = NoRows /\ items = NoRows /\ meals = NoRows
    /\ stats = Registered
    /\ ledger = <<>>
    /\ nextId = [product |-> 1, list |-> 1, item |-> 1, meal |-> 1]
    /\ last = Request(0, "none")
    /\ ai = AIIdle
    /\ profiles = NoProfiles
    /\ cap = [product |-> 1, list |-> 1, item |-> 1, meal |-> NutritionMaxMeals,
              ledger |-> 1, quantity |-> 1]
    /\ analytics = NoAnalytics
    /\ sessions = NoSessions
    /\ family \in Families

\* meals are planned and the day's totals are brought up to date, one request at
\* a time (session 1)
NextNutrition ==
    \/ \E u \in Users, d \in {1}, sh \in BOOLEAN, n \in NutritionEstimates,
          sv \in Servings, f \in CommitFailures :
          meal_planning(u, d, sh, <<>>, n, sv, f)
    \/ \E u \in Users, d \in {1}, inc \in BOOLEAN :
          update_daily_nutrition_find(1, u, d, inc)
    \/ update_daily_nutrition_save(1)

SpecNutrition == InitNutrition /\ [][NextNutrition]_vars

\* ---------------------------------------------------------------- claims: nutrition
\* C13: in every reachable state every stored MealPlan macro and every
\* DailyNutrition consumed total is >= 0.
C13_SumsNeverNegative ==
    /\ \A m \in DOMAIN meals : meals[m].calories >= 0 /\ meals[m].protein >= 0
    /\ \A i \in 1..Len(analytics.daily) :
          /\ analytics.daily[i].value.calories >= 0
          /\ analytics.daily[i].value.protein >= 0

\* a meal planned with servings = -1 is stored with -600 kcal and the day's
\* total of its owner is -600
C13_Witness ==
    /\ \E m \in DOMAIN meals : meals[m].calories = -600
    /\ \E i \in 1..Len(analytics.daily) : analytics.daily[i].value.calories = -600

\* what the meal m adds to the totals of user_id for the day, in a family of n
FamilyShare(m, user_id, date, macro, n) ==
    IF meals[m].date # date THEN 0
    ELSE IF meals[m].is_shared
    THEN (IF meals[m].user_id \in family THEN meals[m][macro] \div n ELSE 0)
    ELSE (IF meals[m].user_id = user_id THEN meals[m][macro] ELSE 0)

\* the totals of the claim, meal by meal
FamilyTotals(user_id, date) ==
    [macro \in {"calories", "protein"} |->
        SumOver(DOMAIN meals,
                [m \in DOMAIN meals |->
                    FamilyShare(m, user_id, date, macro, Cardinality(family))])]

\* a call update_daily_nutrition(user, date, include_family=True) by a member
\* of a family of more than one member has computed its totals in this step
FamilyTotalsComputed(s) ==
    /\ sessions[s] = Idle /\ sessions'[s].pc = "found"
    /\ sessions'[s].table = "daily" /\ sessions'[s].include_family
    /\ sessions'[s].user_id \in family /\ Cardinality(family) > 1

\* the call stores its totals in this step: it updates the row it read, or adds
\* the row of the day
TotalsStored(s) ==
    /\ sessions[s].pc = "found" /\ sessions'[s] = Idle
    /\ sessions[s].table = "daily"
    /\ sessions[s].found # 0
          \/ RowsFor(analytics.daily, sessions[s].user_id, sessions[s].date) = {}

FamilyShared ==
    \A s \in SessionIds :
        /\ FamilyTotalsComputed(s) =>
              \A macro \in {"calories", "protein"} :
                  sessions'[s].value[macro] =
                      FamilyTotals(sessions'[s].user_id, sessions'[s].date)[macro]
        /\ TotalsStored(s) =>
              \E i \in RowsFor(analytics'.daily, sessions[s].user_id, sessions[s].date) :
                  analytics'.daily[i].value = sessions[s].value

\* C14: update_daily_nutrition(user, date, include_family=True) for a member of
\* a family of n > 1: every meal of the date shared by a family member adds
\* value / n of each macro to the totals, every non-shared meal of the user adds
\* its full value, the non-shared meals of the others add nothing; the totals
\* are the ones stored in the user's row of the day.
C14_FamilySharedApportioned == [][FamilyShared]_vars

\* user 1's own meal of 1200 kcal and user 2's shared meal of 1200 kcal give
\* user 1 a total of 1800 kcal in a family of two, stored in the row of the day
C14_Witness ==
    /\ family = {1, 2}
    /\ \E m \in DOMAIN meals :
          meals[m].user_id = 1 /\ ~meals[m].is_shared /\ meals[m].calories = 1200
    /\ \E m \in DOMAIN meals :
          meals[m].user_id = 2 /\ meals[m].is_shared /\ meals[m].calories = 1200
    /\ \E i \in RowsFor(analytics.daily, 1, 1) :
          analytics.daily[i].value.calories = 1800

\* ---------------------------------------------------------------- SpecPantry
PantryMaxProducts == 3
PantryMaxQuantity == 4

\* Product.query.filter(user_id == u, expiry_date <= today + 7 days).all() of
\* api_ai_recipes: the dates are not kept here, so any of the user's rows may be
\* within the seven days; the query has no filter on wasted
ExpiringProducts(prods, u) == SUBSET {p \in DOMAIN prods : prods[p].user_id = u}

\* Product.query.filter_by(user_id=u, wasted=False).all() of suggest_recipes
PantryProducts(prods, u) == {p \in DOMAIN prods : prods[p].user_id = u /\ ~prods[p].wasted}

\* GET /api/ai-recipes: suggest_recipes on the pantry, then
\* ai_generate_recipe_suggestions on the expiring products
api_ai_recipes(u, order, expiring_order, upstream, upstream_expiring) ==
    LET ingredients == [k \in 1..Len(expiring_order) |-> products[expiring_order[k]]]
    IN  Call([fn |-> "api_ai_recipes", user_id |-> u, order |-> order,
              expiring_order |-> expiring_order,
              ingredients_based |->
                  suggest_recipes(products, profiles, u, 5, order, upstream, "ok").value,
              expiring_based |->
                  IF ingredients = <<>> THEN <<>>
                  ELSE ai_generate_recipe_suggestions(ingredients, upstream_expiring, "ok")])

\* user 1 owns pasta (wasted or not) and rice, has ticked pasta on a shopping
\* list and planned a meal of pasta
InitPantry ==
    /\ \E w \in BOOLEAN :
          products = (1 :> [ProductRow(1, "Pasta", 2, "g", "Altro") EXCEPT !.wasted = w]) @@
                     (2 :> ProductRow(1, "Riso", 1, "g", "Altro"))
    /\ lists = (1 :> [user_id |-> 1, completed |-> FALSE])
    /\ items = (1 :> [ItemRow(1, "Pasta", 1, "g") EXCEPT !.completed = TRUE])
    /\ meals = (1 :> [user_id |-> 1, custom_meal |-> <<Ingredient("Pasta", 1, "g")>>,
                      calories |-> 600])
    /\ stats = Registered
    /\ ledger = <<>>
    /\ nextId = [product |-> 3, list |-> 2, item |-> 2, meal |-> 2]
    /\ last = Request(0, "none")
    /\ ai = AIIdle
    /\ profiles = NoProfiles
    /\ cap = [product |-> PantryMaxProducts, list |-> 1, item |-> 1, meal |-> 1,
              ledger |-> 2, quantity |-> PantryMaxQuantity]
    /\ NoStatistics

\* the features that read or restock the pantry, and the request that wastes a row
NextPantry ==
    \E u \in Users :
        \/ \E up \in Upstreams({<<Recipe("Risotto", <<"Riso">>, {})>>}),
              upx \in {Upstream("ok", <<Recipe("Pasta al forno", <<"Pasta">>, {})>>)} :
              \E order \in Orders(PantryProducts(products, u)),
                 expiring \in ExpiringProducts(products, u) :
                 \E expiring_order \in Orders(expiring) :
                    api_ai_recipes(u, order, expiring_order,
                                   [kind |-> up.kind, recipes |-> up.answer],
                                   [kind |-> upx.kind, recipes |-> upx.answer])
        \/ Deliver
        \/ \E p \in 1..cap.product, f \in {"none"} : waste_product(u, p, 100, f)
        \/ \E l \in 1..cap.list, f \in Failures : complete_shopping_list(u, l, f)
        \/ \E m \in 1..cap.meal, f \in CommitFailures : meal_plan_consume(u, m, f)

SpecPantry == InitPantry /\ [][NextPantry]_vars

\* ---------------------------------------------------------------- claims: pantry
\* the products handed to the recipe generators by a call of api_ai_recipes
RecipeIngredientsRead ==
    {ai'.order[k] : k \in 1..Len(ai'.order)}
        \cup {ai'.expiring_order[k] : k \in 1..Len(ai'.expiring_order)}

WastedLeftAlone ==
    /\ (ai = AIIdle /\ ai' # AIIdle) =>
          \A p \in RecipeIngredientsRead : ~products[p].wasted
    /\ \A p \in DOMAIN products \cap DOMAIN products' :
          products[p].wasted => products'[p].quantity = products[p].quantity

\* C15: a product with wasted = true is never handed as an ingredient to a
\* recipe generator (the pantry-based and the expiring-based recipes of
\* api_ai_recipes), and its quantity is never changed by complete_shopping_list
\* or meal_plan_consume.
C15_WastedNeverUsed == [][WastedLeftAlone]_vars

\* the wasted pasta is among the expiring products api_ai_recipes handed to
\* ai_generate_recipe_suggestions
C15_Witness ==
    /\ ai.fn = "api_ai_recipes"
    /\ \E k \in 1..Len(ai.expiring_order) : products[ai.expiring_order[k]].wasted
    /\ \A k \in 1..Len(ai.order) : ~products[ai.order[k]].wasted
    /\ ai.expiring_based # <<>>

\* ---------------------------------------------------------------- SpecFilter
\* the ingredient lists of the recipes the assistant may answer
FilterIngredients ==
    { <<>>, <<"Riso">>, <<"Latte intero">>, <<"Riso", "Latte intero">>,
      <<"Latte">>, <<"Latte intero", "Latte">>, <<"Riso", "Latte">> }
FilterTags == {{}, {"vegan"}, {"Vegan"}}
\* the sets _get_user_restrictions_and_allergies returns (normalised tokens)
FilterRestrictions == {{}, {_normalize_token("Vegan")},
                       {_normalize_token("Vegan"), _normalize_token("Riso")}}
FilterAllergies == {{}, {_normalize_token(" Latte")}}

InitFilter ==
    /\ products = NoRows /\ lists = NoRows /\ items = NoRows /\ meals = NoRows
    /\ stats = Registered
    /\ ledger = <<>>
    /\ nextId = [product |-> 1, list |-> 1, item |-> 1, meal |-> 1]
    /\ last = Request(0, "none")
    /\ ai = AIIdle
    /\ profiles = NoProfiles
    /\ cap = [product |-> 1, list |-> 1, item |-> 1, meal |-> 1, ledger |-> 1,
              quantity |-> 1]
    /\ NoStatistics

\* _recipe_violates_preferences(recipe, restrictions, allergies)
RecipeViolatesPreferences(recipe, restrictions, allergies) ==
    Call([fn |-> "_recipe_violates_preferences", recipe |-> recipe,
          restrictions |-> restrictions, allergies |-> allergies,
          out |-> _recipe_violates_preferences(recipe, restrictions, allergies)])

NextFilter ==
    \/ \E ings \in FilterIngredients, tags \in FilterTags,
          restrictions \in FilterRestrictions, allergies \in FilterAllergies :
          RecipeViolatesPreferences(Recipe("Ricetta", ings, tags), restrictions, allergies)
    \/ Deliver

SpecFilter == InitFilter /\ [][NextFilter]_vars

\* ---------------------------------------------------------------- claims: filter
\* some ingredient name of the recipe contains an allergen, case-insensitively
SomeIngredientHasAllergen(recipe, allergies) ==
    \E k \in 1..Len(recipe.ingredients), allergen \in allergies :
        Contains(Lower(allergen), Lower(Chars[recipe.ingredients[k]]))

\* the recipe has a dietary tag and some declared restriction is not among its tags
SomeRestrictionNotTagged(recipe, restrictions) ==
    /\ recipe.dietary_tags # {}
    /\ \E r \in restrictions : \A t \in recipe.dietary_tags : r # _normalize_token(t)

\* C16: _recipe_violates_preferences returns true exactly when some ingredient
\* name contains an allergen as a case-insensitive substring, or the recipe has
\* at least one dietary tag and some declared restriction is not among its tags.
C16_ViolatesExactlyWhen ==
    ai.fn = "_recipe_violates_preferences" =>
        (ai.out <=> \/ SomeIngredientHasAllergen(ai.recipe, ai.allergies)
                    \/ SomeRestrictionNotTagged(ai.recipe, ai.restrictions))

\* the assistant wrote the ingredient "Latte" as a plain string; the user is
\* allergic to latte and the recipe is not rejected
C16_Witness ==
    /\ ai.fn = "_recipe_violates_preferences"
    /\ ai.recipe.ingredients = <<"Latte">>
    /\ ai.allergies = {_normalize_token(" Latte")}
    /\ ~ai.out

\* ---------------------------------------------------------------- units
\* the unit strings of ingredients and products, by their characters
UnitChars ==
    ("g" :> <<"g">>) @@
    ("grammo" :> <<"g", "r", "a", "m", "m", "o">>) @@
    ("grammi" :> <<"g", "r", "a", "m", "m", "i">>) @@
    ("kg" :> <<"k", "g">>) @@
    ("chilogrammo" :> <<"c", "h", "i", "l", "o", "g", "r", "a", "m", "m", "o">>) @@
    ("chilogrammi" :> <<"c", "h", "i", "l", "o", "g", "r", "a", "m", "m", "i">>) @@
    ("ml" :> <<"m", "l">>) @@
    ("millilitro" :> <<"m", "i", "l", "l", "i", "l", "i", "t", "r", "o">>) @@
    ("millilitri" :> <<"m", "i", "l", "l", "i", "l", "i", "t", "r", "i">>) @@
    ("l" :> <<"l">>) @@
    ("litro" :> <<"l", "i", "t", "r", "o">>) @@
    ("litri" :> <<"l", "i", "t", "r", "i">>) @@
    ("pz" :> <<"p", "z">>) @@
    ("pezzo" :> <<"p", "e", "z", "z", "o">>) @@
    ("pezzi" :> <<"p", "e", "z", "z", "i">>) @@
    ("unit" :> <<"u", "n", "i", "t">>) @@
    ("unita" :> <<"u", "n", "i", "t", "a">>) @@
    ("cucchiaino" :> <<"c", "u", "c", "c", "h", "i", "a", "i", "n", "o">>) @@
    ("cucchiaino/i" :> <<"c", "u", "c", "c", "h", "i", "a", "i", "n", "o", "/", "i">>) @@
    ("tsp" :> <<"t", "s", "p">>) @@
    ("cucchiaio" :> <<"c", "u", "c", "c", "h", "i", "a", "i", "o">>) @@
    ("cucchiaio/i" :> <<"c", "u", "c", "c", "h", "i", "a", "i", "o", "/", "i">>) @@
    ("tbsp" :> <<"t", "b", "s", "p">>) @@
    (" KG " :> <<" ", "K", "G", " ">>) @@
    ("bicchiere" :> <<"b", "i", "c", "c", "h", "i", "e", "r", "e">>) @@
    ("" :> <<>>)

\* (unit or '').strip().lower(), as one of the strings above
StripLowerUnit(unit) ==
    CHOOSE t \in DOMAIN UnitChars : UnitChars[t] = Lower(Strip(UnitChars[unit]))

_UNIT_ALIASES ==
    [g |-> {"g", "grammo", "grammi"}, kg |-> {"kg", "chilogrammo", "chilogrammi"},
     ml |-> {"ml", "millilitro", "millilitri"}, l |-> {"l", "litro", "litri"},
     pz |-> {"pz", "pezzo", "pezzi", "unit", "unita"}]

_SPOON_MAP_TO_ML ==
    ("cucchiaino" :> 5) @@ ("cucchiaino/i" :> 5) @@ ("tsp" :> 5) @@
    ("cucchiaio" :> 15) @@ ("cucchiaio/i" :> 15) @@ ("tbsp" :> 15)

\* _normalize_unit_name(unit)
_normalize_unit_name(unit) ==
    LET u == StripLowerUnit(unit)
    IN  IF u = "" THEN ""
        ELSE IF u \in DOMAIN _SPOON_MAP_TO_ML THEN "ml"
        ELSE IF \E canon \in DOMAIN _UNIT_ALIASES : u = canon \/ u \in _UNIT_ALIASES[canon]
        THEN CHOOSE canon \in DOMAIN _UNIT_ALIASES : u = canon \/ u \in _UNIT_ALIASES[canon]
        ELSE u

\* a quantity as the caller holds it: a number, an empty or missing value, or a
\* text that float() refuses
Number(q) == [kind |-> "number", q |-> q]
EmptyQuantity == [kind |-> "empty", q |-> 0]
NotANumber == [kind |-> "text", q |-> 0]

\* float(quantity or 0), 0.0 when float() raises
FloatOrZero(quantity) == IF quantity.kind = "number" THEN quantity.q ELSE 0

\* a conversion that multiplies grams as if they were kilograms
ConvertGramsAgain(quantity, unit) ==
    LET q == FloatOrZero(quantity)
        u == _normalize_unit_name(unit)
    IN  IF u \in {"kg", "g"} THEN <<q * 1000, "g">>
        ELSE IF u = "l" THEN <<q * 1000, "ml">>
        ELSE <<q, u>>

\* _convert_to_canonical_quantity(quantity, unit): <<quantity, unit>>
_convert_to_canonical_quantity(quantity, unit) ==
    LET q == FloatOrZero(quantity)
        u == _normalize_unit_name(unit)
    IN  IF u \in {"cucchiaio", "cucchiaino", "tsp", "tbsp"}
        THEN <<q * _SPOON_MAP_TO_ML[u], "ml">>
        ELSE IF u = "kg" THEN <<q * 1000, "g">>
        ELSE IF u = "l" THEN <<q * 1000, "ml">>
        ELSE <<q, u>>

\* name_to_unit.get(key) of _remap_recipe_units_to_pantry: the normalized unit of
\* the last product of the query whose name has that key ("": no entry)
PantryUnit(prods, order, key) ==
    LET hits == {k \in 1..Len(order) :
                    /\ _normalize_token(prods[order[k]].name) = key
                    /\ key # <<>>
                    /\ prods[order[k]].unit # ""}
    IN  IF hits = {} THEN ""
        ELSE _normalize_unit_name(
                 prods[order[CHOOSE k \in hits : \A h \in hits : h <= k]].unit)

\* the body of the loop of _remap_recipe_units_to_pantry for one ingredient
RemapIngredient(ing, prods, order) ==
    LET key == _normalize_token(ing.item)
        pantry_unit == PantryUnit(prods, order, key)
        converted == _convert_to_canonical_quantity(Number(ing.quantity), ing.unit)
        qty == converted[1]
        unit == converted[2]
    IN  IF key = <<>> \/ pantry_unit = "" THEN ing
        ELSE IF pantry_unit = unit THEN Ingredient(ing.item, qty, pantry_unit)
        ELSE IF pantry_unit = "g" /\ unit = "kg" THEN Ingredient(ing.item, qty * 1000, "g")
        ELSE IF pantry_unit = "ml" /\ unit = "l" THEN Ingredient(ing.item, qty * 1000, "ml")
        ELSE Ingredient(ing.item, qty, unit)

\* _remap_recipe_units_to_pantry(recipes, user_id), on the ingredients of a recipe
_remap_recipe_units_to_pantry(ingredients, prods, order) ==
    [k \in 1..Len(ingredients) |-> RemapIngredient(ingredients[k], prods, order)]

\* ---------------------------------------------------------------- SpecUnits
\* the unit conversions, the remap of a recipe to the pantry and the consumption
\* of a meal plan, on a pantry that holds its products in different units
UnitInputs == DOMAIN UnitChars
QuantityInputs == {Number(0), Number(2), EmptyQuantity, NotANumber}
UnitsMaxQuantity == 1000
\* the pantry of user 1: rice in kg, pasta in g, milk in l and, wasted, in ml
UnitPantry ==
    (1 :> ProductRow(1, "Riso", 1, "kg", "Altro")) @@
    (2 :> ProductRow(1, "Pasta", 1000, "g", "Altro")) @@
    (3 :> ProductRow(1, "Latte", 1, "l", "Altro")) @@
    (4 :> [ProductRow(1, "Latte intero", 1000, "ml", "Altro") EXCEPT !.wasted = TRUE])
\* the ingredients of a recipe as the assistant may give them
RecipeIngredients ==
    {Ingredient(item, quantity, unit) :
        item \in {"riso", "Pasta", "latte", "Latte intero"}, quantity \in {2, 500},
        unit \in {"g", "kg", "ml", "l", "pz", "tsp", "bicchiere"}}

InitUnits ==
    /\ products = UnitPantry
    /\ lists = NoRows /\ items = NoRows
    /\ meals = (1 :> [user_id |-> 1,
                      custom_meal |-> <<Ingredient("Riso", 500, "g"),
                                        Ingredient("Pasta", 500, "g")>>,
                      calories |-> 600])
    /\ stats = Registered
    /\ ledger = <<>>
    /\ nextId = [product |-> 5, list |-> 1, item |-> 1, meal |-> 2]
    /\ last = Request(0, "none")
    /\ ai = AIIdle
    /\ profiles = NoProfiles
    /\ cap = [product |-> 4, list |-> 1, item |-> 1, meal |-> 1, ledger |-> 1,
              quantity |-> UnitsMaxQuantity]
    /\ NoStatistics

\* _convert_to_canonical_quantity(quantity, unit), and the same applied to its result
ConvertToCanonicalQuantity(quantity, unit) ==
    LET out == _convert_to_canonical_quantity(quantity, unit)
    IN  Call([fn |-> "_convert_to_canonical_quantity", quantity |-> quantity,
              unit |-> unit, out |-> out,
              again |-> _convert_to_canonical_quantity(Number(out[1]), out[2])])

\* _remap_recipe_units_to_pantry(recipes, user_id) on a recipe of one ingredient
RemapRecipeUnitsToPantry(u, order, ing) ==
    Call([fn |-> "_remap_recipe_units_to_pantry", user_id |-> u, order |-> order,
          ingredient |-> ing,
          pantry_unit |-> PantryUnit(products, order, _normalize_token(ing.item)),
          out |-> _remap_recipe_units_to_pantry(<<ing>>, products, order)[1]])

NextUnits ==
    \/ \E quantity \in QuantityInputs, unit \in UnitInputs :
          ConvertToCanonicalQuantity(quantity, unit)
    \/ \E u \in {1}, ing \in RecipeIngredients :
          \E order \in Orders(PantryProducts(products, u)) :
             RemapRecipeUnitsToPantry(u, order, ing)
    \/ Deliver
    \/ \E u \in {1}, f \in {"none"} : meal_plan_consume(u, 1, f)

SpecUnits == InitUnits /\ [][NextUnits]_vars

\* ---------------------------------------------------------------- claims: units
\* the conversion the contract describes, on the unit name without case and
\* surrounding blanks
ReferenceConversion(quantity, unit) ==
    LET q == IF quantity.kind = "number" THEN quantity.q ELSE 0
        name == StripLowerUnit(unit)
    IN  IF name \in {"kg", "chilogrammo", "chilogrammi"} THEN <<1000 * q, "g">>
        ELSE IF name \in {"l", "litro", "litri"} THEN <<1000 * q, "ml">>
        ELSE IF name \in {"tsp", "cucchiaino", "cucchiaino/i"} THEN <<5 * q, "ml">>
        ELSE IF name \in {"tbsp", "cucchiaio", "cucchiaio/i"} THEN <<15 * q, "ml">>
        ELSE IF name \in {"g", "grammo", "grammi"} THEN <<q, "g">>
        ELSE IF name \in {"ml", "millilitro", "millilitri"} THEN <<q, "ml">>
        ELSE IF name \in {"pz", "pezzo", "pezzi", "unit", "unita"} THEN <<q, "pz">>
        ELSE <<q, name>>

Converted == ai.fn = "_convert_to_canonical_quantity"

\* C17: _convert_to_canonical_quantity(q, unit) is the reference conversion for
\* every input: 1000 q g for kg, 1000 q ml for l, 5 q ml for a teaspoon, 15 q ml for
\* a tablespoon, q in the canonical name for the aliases of g, ml and pz, q in the
\* unit itself for an unknown unit, and 0 for an empty or missing quantity
C17_EqualsReference ==
    Converted => ai.out = ReferenceConversion(ai.quantity, ai.unit)

\* two teaspoons are converted, and come out as two millilitres
C17_Witness ==
    Converted /\ ai.quantity = Number(2) /\ ai.unit = "tsp" /\ ai.out = <<2, "ml">>

\* the canonical units of the glossary, and the primary units the conversion ends in
GlossaryCanonicalUnits == {"g", "kg", "ml", "l", "pz"}
PrimaryUnits == {"g", "ml", "pz"}

\* the conversion of a result is that result
AppliedTwice == ai.again = ai.out
\* a pair with a unit of S comes back as it was given
UnchangedOn(S) ==
    (ai.quantity.kind = "number" /\ ai.unit \in S) => ai.out = <<ai.quantity.q, ai.unit>>

\* C18 as stated: the conversion is idempotent, and a pair whose unit is already
\* canonical (one of g, kg, ml, l, pz) is returned unchanged by the first application
C18_IdempotentCanonicalUnchanged ==
    Converted => AppliedTwice /\ UnchangedOn(GlossaryCanonicalUnits)

\* C18: the conversion is idempotent, and a pair whose unit is one of g, ml, pz is
\* returned unchanged by the first application
C18_IdempotentPrimaryUnchanged ==
    Converted => AppliedTwice /\ UnchangedOn(PrimaryUnits)

\* two kilograms are converted to 2000 g, which the conversion then leaves alone
C18_Witness ==
    /\ Converted /\ ai.quantity = Number(2) /\ ai.unit = "kg"
    /\ ai.out = <<2000, "g">> /\ ai.again = <<2000, "g">>

\* ---------------------------------------------------------------- claims: comparison
\* <<quantity, unit>> of a product or an ingredient in the units g, ml, pz
Reduced(row) == ReferenceConversion(Number(row.quantity), row.unit)

\* a request of user 1 to consume meal plan 1 has been answered with success
ConsumeAnswered == ai' = ai /\ last'.actor = 1 /\ last'.status = "ok"

\* the non-wasted product of user 1 an ingredient names
Named(ing) == {p \in PantryProducts(products, 1) :
                  _normalize_token(products[p].name) = _normalize_token(ing.item)}

\* an ingredient the pantry covers, both taken in g, ml, pz, has been taken from it
ConsumedInSameUnit ==
    \A k \in DOMAIN meals[1].custom_meal :
        LET ing == meals[1].custom_meal[k]
        IN  \A p \in Named(ing) :
                (Reduced(products[p])[2] = Reduced(ing)[2]
                     /\ Reduced(products[p])[1] >= Reduced(ing)[1])
                => Reduced(products'[p]) =
                       <<Reduced(products[p])[1] - Reduced(ing)[1], Reduced(ing)[2]>>

\* the remap compares the ingredient's unit with a pantry unit in g, ml, pz
RemapComparesPrimary ==
    ai'.fn = "_remap_recipe_units_to_pantry" /\ ai'.pantry_unit # ""
    => ai'.pantry_unit \in PrimaryUnits

ComparedInSameUnit ==
    /\ ConsumeAnswered => ConsumedInSameUnit
    /\ RemapComparesPrimary

\* C19: whenever the unit of an ingredient is compared with the unit of a pantry
\* product (availability, meal_plan_consume, the remap), both sides have first been
\* reduced to g, ml, pz: 1 kg in the pantry covers 500 g required
C19_ComparedInCanonicalUnits == [][ComparedInSameUnit]_vars

\* the meal plan of 500 g of rice and 500 g of pasta was consumed: the pasta was
\* taken from its 1000 g, and the pantry still holds its 1 kg of rice
C19_Witness ==
    /\ last.actor = 1 /\ last.status = "ok"
    /\ ~products[1].wasted /\ products[1].unit = "kg" /\ products[1].quantity = 1
    /\ products[2].quantity = 500

\* ---------------------------------------------------------------- claims: remap
Remapped == ai.fn = "_remap_recipe_units_to_pantry"

\* the non-wasted products of the caller with the ingredient's name, whatever the case
SameName(ing) == {p \in PantryProducts(products, ai.user_id) :
                    _normalize_token(products[p].name) = _normalize_token(ing.item)}

Dimension(unit) == IF unit \in {"g", "kg"} THEN "mass"
                   ELSE IF unit \in {"ml", "l"} THEN "volume" ELSE unit

\* quantity q in unit `from` is quantity r in unit `to`, a factor 1000 apart or equal
SameAmount(q, from, to, r) ==
    IF from = to THEN r = q
    ELSE IF from \in {"kg", "l"} THEN r = 1000 * q ELSE 1000 * r = q

\* compatible units: the ingredient is in the pantry's unit, converted by 1000
RemapCompatible(ing, pantry_unit) ==
    /\ ai.out.unit = pantry_unit
    /\ SameAmount(ing.quantity, ing.unit, pantry_unit, ai.out.quantity)

\* incompatible units: the ingredient keeps its amount and is not in the pantry's unit
RemapIncompatible(ing, pantry_unit) ==
    /\ ai.out.unit # pantry_unit
    /\ <<ai.out.quantity, ai.out.unit>> = Reduced(ing)

\* C20: _remap_recipe_units_to_pantry expresses an ingredient that has the name of
\* a non-wasted pantry product in the pantry's unit, with the factor 1000, when the
\* two units are compatible (g with kg, ml with l), and never gives it the pantry's
\* unit nor changes its amount when they are incompatible
C20_RemappedToPantryUnit ==
    Remapped /\ ai.ingredient.unit \in GlossaryCanonicalUnits =>
        \A p \in SameName(ai.ingredient) :
            LET ing == ai.ingredient
                pantry_unit == products[p].unit
            IN  IF Dimension(ing.unit) = Dimension(pantry_unit)
                THEN RemapCompatible(ing, pantry_unit)
                ELSE RemapIncompatible(ing, pantry_unit)

\* 500 g of rice were remapped to a pantry that holds rice in kg, and stayed 500 g
C20_Witness ==
    /\ Remapped /\ ai.ingredient = Ingredient("riso", 500, "g")
    /\ products[1].unit = "kg" /\ ~products[1].wasted
    /\ ai.out = Ingredient("riso", 500, "g")

\* ---------------------------------------------------------------- scaling
\* quantities of a scaled recipe are in hundredths (round(x, 2) keeps two decimals)

\* a scaling that multiplies by the target and forgets the current servings
ScaledByTarget(quantity, target, servings, tie) == quantity * target

\* round(float(quantity) * (target / servings), 2), for a quantity >= 0; on a value
\* half way between two hundredths the float decides, either way (tie)
ScaledQuantity(quantity, target, servings, tie) ==
    LET down == (quantity * target) \div servings
        rest == (quantity * target) % servings
    IN  IF 2 * rest < servings THEN down
        ELSE IF 2 * rest > servings THEN down + 1
        ELSE IF tie = "up" THEN down + 1 ELSE down

\* recipe.get('servings') or 1, then max(1, int(servings)); 0 stands for a missing
\* 'servings' key as well
CurrentServings(recipe) == Max(1, IF recipe.servings = 0 THEN 1 ELSE recipe.servings)

\* _scale_recipe_servings(recipe, target_servings): the recipe after the call
_scale_recipe_servings(recipe, target_servings, tie) ==
    LET servings == CurrentServings(recipe)
        target == Max(1, target_servings)
    IN  IF target = servings THEN recipe
        ELSE [servings |-> target,
              ingredients |->
                 [k \in DOMAIN recipe.ingredients |->
                     [recipe.ingredients[k] EXCEPT
                         !.quantity = ScaledQuantity(@, target, servings, tie)]]]

\* ---------------------------------------------------------------- SpecScale
\* _scale_recipe_servings on a recipe of one ingredient: to n and then to m, and
\* directly to m
ScaleServings == {-1, 0, 1, 2, 4}
ScaleTargets == {0, 1, 2, 3, 4}
ScaleQuantities == {0, 33, 50, 100, 125}
Ties == {"down", "up"}

InitScale ==
    /\ products = NoRows /\ lists = NoRows /\ items = NoRows /\ meals = NoRows
    /\ stats = Registered
    /\ ledger = <<>>
    /\ nextId = [product |-> 1, list |-> 1, item |-> 1, meal |-> 1]
    /\ last = Request(0, "none")
    /\ ai = AIIdle
    /\ profiles = NoProfiles
    /\ cap = [product |-> 1, list |-> 1, item |-> 1, meal |-> 1, ledger |-> 1,
              quantity |-> 1]
    /\ NoStatistics

\* suggest_recipes scales each recipe to the servings asked for; here twice, and once
ScaleRecipeServings(recipe, n, m, tie_n, tie_m, tie_direct) ==
    LET first == _scale_recipe_servings(recipe, n, tie_n)
    IN  Call([fn |-> "_scale_recipe_servings", recipe |-> recipe, n |-> n, m |-> m,
              first |-> first,
              twice |-> _scale_recipe_servings(first, m, tie_m),
              direct |-> _scale_recipe_servings(recipe, m, tie_direct)])

NextScale ==
    \/ \E servings \in ScaleServings, quantity \in ScaleQuantities,
          n \in ScaleTargets, m \in ScaleTargets, tn \in Ties, tm \in Ties, td \in Ties :
          ScaleRecipeServings([servings |-> servings,
                               ingredients |-> <<Ingredient("Riso", quantity, "g")>>],
                              n, m, tn, tm, td)
    \/ Deliver

SpecScale == InitScale /\ [][NextScale]_vars

\* ---------------------------------------------------------------- claims: scaling
Scaled == ai.fn = "_scale_recipe_servings"

Distance(a, b) == IF a >= b THEN a - b ELSE b - a

\* the servings of both results count as the target m (at least 1)
ServingsAreTarget ==
    /\ CurrentServings(ai.twice) = Max(1, ai.m)
    /\ CurrentServings(ai.direct) = Max(1, ai.m)

\* how far apart, in hundredths, the quantity scaled twice and the one scaled once are
ScaleGap(k) == Distance(ai.twice.ingredients[k].quantity, ai.direct.ingredients[k].quantity)

\* C21 as stated: scaling to n and then to m leaves every quantity equal, within the
\* rounding to 2 decimals (one hundredth), to scaling directly to m, and the servings
\* equal to m in both cases
C21_ScalingComposes ==
    Scaled => ServingsAreTarget /\ \A k \in DOMAIN ai.recipe.ingredients : ScaleGap(k) <= 1

\* C21: scaling to n and then to m leaves the servings equal to m in both cases, and
\* every quantity within m/n half hundredths plus one hundredth of scaling directly
\* to m: the rounding of the first scaling is multiplied by m/n in the second
C21_ScalingComposesUpToRatio ==
    Scaled => /\ ServingsAreTarget
              /\ \A k \in DOMAIN ai.recipe.ingredients :
                    2 * Max(1, ai.n) * ScaleGap(k) <= Max(1, ai.m) + 2 * Max(1, ai.n)

\* 0.50 for four servings, scaled to one serving and back to four, is 0.48 or 0.52
C21_Witness ==
    /\ Scaled /\ ai.recipe.servings = 4 /\ ai.n = 1 /\ ai.m = 4
    /\ ai.recipe.ingredients[1].quantity = 50
    /\ ai.direct.ingredients[1].quantity = 50
    /\ ai.twice.ingredients[1].quantity \in {48, 52}

\* ---------------------------------------------------------------- waste score
\* int(a / b): the quotient cut toward zero (b # 0)
TruncDiv(a, b) ==
    LET q == (IF a >= 0 THEN a ELSE 0 - a) \div (IF b >= 0 THEN b ELSE 0 - b)
    IN  IF (a >= 0) = (b >= 0) THEN q ELSE 0 - q

\* a grade by bands of twenty points
GradeByTwenties(score) ==
    IF score >= 80 THEN "A" ELSE IF score >= 60 THEN "B" ELSE IF score >= 40 THEN "C"
    ELSE IF score >= 20 THEN "D" ELSE "F"

\* the grade of calculate_waste_reduction_score
Grade(score) ==
    IF score >= 90 THEN "A" ELSE IF score >= 80 THEN "B" ELSE IF score >= 70 THEN "C"
    ELSE IF score >= 60 THEN "D" ELSE "F"

\* a score that grows with the wasted quantity
WasteScoreOfWasted(total_quantity, wasted_quantity) ==
    Max(0, Min(100, TruncDiv(100 * wasted_quantity, total_quantity)))

\* max(0, min(100, int(100 - wasted_quantity / total_quantity * 100)))
WasteScore(total_quantity, wasted_quantity) ==
    Max(0, Min(100, TruncDiv(100 * total_quantity - 100 * wasted_quantity, total_quantity)))

\* calculate_waste_reduction_score(user_id, days): 'score' and 'grade' of the result;
\* period: the products created since the cutoff date
calculate_waste_reduction_score(prods, user_id, period, db) ==
    LET rows == {p \in period : prods[p].user_id = user_id}
        total_quantity == SumOver(rows, [p \in rows |-> prods[p].quantity])
        wasted == {p \in rows : prods[p].wasted}
        wasted_quantity == SumOver(wasted, [p \in wasted |-> prods[p].quantity])
    IN  IF db = "error"
        THEN [score |-> 0, grade |-> "F", total_quantity |-> 0, wasted_quantity |-> 0]
        ELSE IF total_quantity = 0
        THEN [score |-> 100, grade |-> "A", total_quantity |-> total_quantity,
              wasted_quantity |-> wasted_quantity]
        ELSE [score |-> WasteScore(total_quantity, wasted_quantity),
              grade |-> Grade(WasteScore(total_quantity, wasted_quantity)),
              total_quantity |-> total_quantity, wasted_quantity |-> wasted_quantity]

\* ---------------------------------------------------------------- SpecScore
\* the waste score of a pantry of two products that the user edits and wastes
ScoreQuantities == {-2, 0, 1, 3, 7, 10}
ScoreMaxLedger == 2

InitScore ==
    /\ products = (1 :> ProductRow(1, "Riso", 10, "g", "Altro")) @@
                  (2 :> ProductRow(1, "Pasta", 1, "g", "Altro"))
    /\ lists = NoRows /\ items = NoRows /\ meals = NoRows
    /\ stats = Registered
    /\ ledger = <<>>
    /\ nextId = [product |-> 3, list |-> 1, item |-> 1, meal |-> 1]
    /\ last = Request(0, "none")
    /\ ai = AIIdle
    /\ profiles = NoProfiles
    /\ cap = [product |-> 2, list |-> 1, item |-> 1, meal |-> 1,
              ledger |-> ScoreMaxLedger, quantity |-> 10]
    /\ NoStatistics

\* the dashboard: calculate_waste_reduction_score(current_user.id)
WasteReductionScore(u, period, db) ==
    Call([fn |-> "calculate_waste_reduction_score", user_id |-> u, period |-> period,
          db |-> db, out |-> calculate_waste_reduction_score(products, u, period, db)])

NextScore ==
    \/ \E u \in {1}, period \in SUBSET DOMAIN products, db \in DbOutcomes :
          WasteReductionScore(u, period, db)
    \/ Deliver
    \/ \E u \in {1}, p \in DOMAIN products, quantity \in ScoreQuantities :
          edit_product(u, p, products[p].name, quantity, "g", "none")
    \/ \E u \in {1}, p \in DOMAIN products : waste_product(u, p, 100, "none")

SpecScore == InitScore /\ [][NextScore]_vars

\* ---------------------------------------------------------------- claims: waste score
Scored == ai.fn = "calculate_waste_reduction_score"

\* the wasted quantities a pantry of the same total could hold
WastedRange == -20..20

\* wasted quantity a is at least as large a fraction of the total as b
FractionAtLeast(a, b, total) == IF total > 0 THEN a >= b ELSE a <= b

BandOf(score) ==
    IF score \in 90..100 THEN "A" ELSE IF score \in 80..89 THEN "B"
    ELSE IF score \in 70..79 THEN "C" ELSE IF score \in 60..69 THEN "D" ELSE "F"

\* C23: calculate_waste_reduction_score always returns a score in 0..100 and the
\* grade of its ten-point band (A from 90, B from 80, C from 70, D from 60, else F);
\* with no quantity recorded in the period it returns score 100 and grade A
C23_ScoreInRangeAndGraded ==
    Scored =>
        /\ ai.out.score \in 0..100
        /\ ai.out.grade = BandOf(ai.out.score)
        /\ (ai.db = "ok" /\ ai.out.total_quantity = 0)
           => ai.out.score = 100 /\ ai.out.grade = "A"

\* three of ten grams are wasted: score 70, grade C
C23_Witness ==
    /\ Scored /\ ai.out.total_quantity = 10 /\ ai.out.wasted_quantity = 3
    /\ ai.out.score = 70 /\ ai.out.grade = "C"

\* ---------------------------------------------------------------- SpecLevel
\* calculate_level on every number of points up to the fifth level, and below zero
MaxLevelPoints == 450
LevelPoints == (0 - 3)..MaxLevelPoints

InitLevel ==
    /\ products = NoRows /\ lists = NoRows /\ items = NoRows /\ meals = NoRows
    /\ stats = Registered
    /\ ledger = <<>>
    /\ nextId = [product |-> 1, list |-> 1, item |-> 1, meal |-> 1]
    /\ last = Request(0, "none")
    /\ ai = AIIdle
    /\ profiles = NoProfiles
    /\ cap = [product |-> 1, list |-> 1, item |-> 1, meal |-> 1, ledger |-> 1,
              quantity |-> 1]
    /\ NoStatistics

\* award_points: new_level = calculate_level(stats.points)
CalculateLevel(points) ==
    Call([fn |-> "calculate_level", points |-> points, out |-> calculate_level(points)])

NextLevel ==
    \/ \E points \in LevelPoints : CalculateLevel(points)
    \/ Deliver

SpecLevel == InitLevel /\ [][NextLevel]_vars

\* ---------------------------------------------------------------- claims: level function
Levelled == ai.fn = "calculate_level"

CompletionFailed(s, user_id) ==
    /\ sessions' = [sessions EXCEPT ![s] = [pc |-> "answered", success |-> FALSE]]
    /\ last' = Request(user_id, "error")

\* the first half: the guards and the loop, on the rows the request reads; an
\* exception raised inside the loop (f = "query") ends the request
complete_shopping_list_read(s, u, list_id, f) ==
    /\ sessions[s] = Idle
    /\ list_id \in DOMAIN lists
    /\ lists[list_id].user_id = u
    /\ ~AlreadyCompleted(lists[list_id])
    /\ LET completed_items == {i \in ItemsOf(items, list_id) : items[i].completed}
       IN  /\ completed_items # {}
           /\ IF f = "query"
              THEN CompletionFailed(s, u)
              ELSE /\ \E order \in Orders(completed_items) :
                      \E pick \in [completed_items -> 1..cap.product] :
                         LET done == FoldCompleted(order,
                                         [products |-> products, next |-> nextId.product,
                                          added |-> 0, updated |-> 0, valid |-> TRUE], u, pick)
                             changed == {p \in DOMAIN products :
                                            done.products[p] # products[p]}
                         IN  /\ done.valid
                             /\ sessions' = [sessions EXCEPT ![s] =
                                   [pc |-> "folded", user_id |-> u, list_id |-> list_id,
                                    updates |-> [p \in changed |-> done.products[p].quantity],
                                    inserts |-> [k \in 1..(done.next - nextId.product) |->
                                                    done.products[nextId.product + k - 1]],
                                    points |-> (done.added + done.updated) * 2]]
                   /\ last' = last
    /\ UNCHANGED <<dbvars, ai, cap, profiles, analytics, family>>

\* the Product table once the pending changes c of a session are written: each
\* UPDATE sets the quantity the session computed, each INSERT takes the next id
Flushed(c) ==
    [p \in DOMAIN products \cup {nextId.product + k - 1 : k \in DOMAIN c.inserts} |->
        IF p \in DOMAIN products
        THEN IF p \in DOMAIN c.updates
             THEN [products[p] EXCEPT !.quantity = c.updates[p]]
             ELSE products[p]
        ELSE c.inserts[p - nextId.product + 1]]

\* a handler whose except branch answers 500 and leaves the flushed rows in place
complete_shopping_list_commit_kept(s, f) ==
    /\ sessions[s].pc = "folded"
    /\ f = "commit"
    /\ nextId.product + Len(sessions[s].inserts) <= cap.product + 1
    /\ products' = Flushed(sessions[s])
    /\ nextId' = [nextId EXCEPT !.product = @ + Len(sessions[s].inserts)]
    /\ CompletionFailed(s, sessions[s].user_id)
    /\ UNCHANGED <<lists, items, meals, stats, ledger, ai, cap, profiles, analytics, family>>

\* the second half: the pending changes are committed with the list completed, the
\* points are awarded and the request is answered; a failed commit is rolled back
complete_shopping_list_commit(s, f) ==
    /\ sessions[s].pc = "folded"
    /\ LET c == sessions[s]
           awarded == award_points(stats, ledger, c.user_id, c.points, TRUE)
       IN  IF f = "commit"
           THEN /\ CompletionFailed(s, c.user_id)
                /\ UNCHANGED <<dbvars, ai, cap, profiles, analytics, family>>
           ELSE /\ nextId.product + Len(c.inserts) <= cap.product + 1
                /\ Len(ledger) < cap.ledger
                /\ products' = Flushed(c)
                /\ nextId' = [nextId EXCEPT !.product = @ + Len(c.inserts)]
                /\ lists' = [lists EXCEPT ![c.list_id].completed = TRUE]
                /\ stats' = awarded[1]
                /\ ledger' = awarded[2]
                /\ sessions' = [sessions EXCEPT ![s] = [pc |-> "answered", success |-> TRUE]]
                /\ last' = Response(c.user_id, "ok", awarded[3])
                /\ UNCHANGED <<items, meals, ai, cap, profiles, analytics, family>>

\* ---------------------------------------------------------------- SpecComplete
\* two requests complete the list of user 1, whose items the user may still toggle
CompleteMaxProducts == 4
CompleteMaxLedger == 2
CompleteMaxQuantity == 5

\* the pantry before any completion
PantryBefore == (1 :> ProductRow(1, "Riso", 1, "g", "Altro"))

InitComplete ==
    /\ products = PantryBefore
    /\ lists = (1 :> [user_id |-> 1, completed |-> FALSE])
    /\ items = (1 :> [ItemRow(1, "Riso", 2, "g") EXCEPT !.completed = TRUE]) @@
               (2 :> [ItemRow(1, "Pasta", 1, "g") EXCEPT !.completed = TRUE])
    /\ meals = NoRows
    /\ stats = Registered
    /\ ledger = <<>>
    /\ nextId = [product |-> 2, list |-> 2, item |-> 3, meal |-> 1]
    /\ last = Request(0, "none")
    /\ ai = AIIdle
    /\ profiles = NoProfiles
    /\ cap = [product |-> CompleteMaxProducts, list |-> 1, item |-> 2, meal |-> 1,
              ledger |-> CompleteMaxLedger, quantity |-> CompleteMaxQuantity]
    /\ NoStatistics

NextComplete ==
    \E s \in SessionIds, u \in {1} :
        \/ \E f \in {"none", "query"} : complete_shopping_list_read(s, u, 1, f)
        \/ \E f \in CommitFailures : complete_shopping_list_commit(s, f)
        \/ \E i \in DOMAIN items : toggle_shopping_item(u, i, "none")

SpecComplete == InitComplete /\ [][NextComplete]_vars

\* ---------------------------------------------------------------- claims: concurrent completion
\* the requests that were answered with success
Succeeded == {s \in SessionIds : sessions[s].pc = "answered" /\ sessions[s].success}

\* the rows of user 1 with the name of an item
RowsNamed(prods, name) == {p \in DOMAIN prods : prods[p].user_id = 1 /\ prods[p].name = name}

\* C25: under two concurrent complete_shopping_list requests for the same list the
\* completed items are folded once: a matching product grows by the item quantity
\* once, at most one new Product row is created per item, and at most one of the
\* requests reports success
C25_FoldedOnce ==
    /\ \A i \in DOMAIN items :
          LET before == RowsNamed(PantryBefore, items[i].name)
          IN  IF before # {}
              THEN \A p \in before :
                      products[p].quantity \in
                          {PantryBefore[p].quantity,
                           PantryBefore[p].quantity + items[i].quantity}
              ELSE Cardinality(RowsNamed(products, items[i].name)) <= 1
    /\ Cardinality(Succeeded) <= 1

\* both requests were answered with success, and the pantry holds two rows of pasta
C25_Witness ==
    /\ Cardinality(Succeeded) = 2
    /\ Cardinality(RowsNamed(products, "Pasta")) = 2
    /\ lists[1].completed

\* ---------------------------------------------------------------- concurrent awards
\* award_points run by concurrent requests, each in two steps: the read of the
\* UserStats row with the new points and level set on the loaded object, then
\* db.session.commit(), which writes the attributes the call has set

AwardAmounts == {POINTS_TABLE.shopping_list_created, POINTS_TABLE.product_added,
                 POINTS_TABLE.shopping_completed, POINTS_TABLE.first_product}

\* stats = UserStats.query...first(); stats.points += amount; the level, if higher
award_points_read(s, user_id, amount) ==
    /\ sessions[s] = Idle
    /\ LET old == stats[user_id]
           new_level == calculate_level(old.points + amount)
       IN  sessions' = [sessions EXCEPT ![s] =
               [pc |-> "awarding", user_id |-> user_id, amount |-> amount,
                points |-> old.points + amount,
                level_up |-> new_level > old.level, level |-> new_level]]
    /\ UNCHANGED <<dbvars, last, ai, cap, profiles, analytics, family>>

\* db.session.add(history); db.session.commit(), or the except branch
award_points_commit(s, committed) ==
    /\ sessions[s].pc = "awarding"
    /\ LET a == sessions[s]
       IN  IF ~committed
           THEN /\ sessions' = [sessions EXCEPT ![s] =
                       [pc |-> "answered", success |-> FALSE, amount |-> a.amount]]
                /\ UNCHANGED <<stats, ledger>>
           ELSE /\ Len(ledger) < cap.ledger
                /\ stats' = [stats EXCEPT ![a.user_id] =
                               [points |-> a.points,
                                level |-> IF a.level_up THEN a.level ELSE @.level]]
                /\ ledger' = Append(ledger, RewardRow(a.user_id, a.amount))
                /\ sessions' = [sessions EXCEPT ![s] =
                       [pc |-> "answered", success |-> TRUE, amount |-> a.amount]]
    /\ UNCHANGED <<products, lists, items, meals, nextId, last, ai, cap, profiles,
                   analytics, family>>

\* ---------------------------------------------------------------- SpecAward
\* two calls of award_points for user 1
AwardMaxLedger == 2

InitAward ==
    /\ products = NoRows
    /\ lists = NoRows
    /\ items = NoRows
    /\ meals = NoRows
    /\ stats = Registered
    /\ ledger = <<>>
    /\ nextId = [product |-> 1, list |-> 1, item |-> 1, meal |-> 1]
    /\ last = Request(0, "none")
    /\ ai = AIIdle
    /\ profiles = NoProfiles
    /\ cap = [product |-> 1, list |-> 1, item |-> 1, meal |-> 1,
              ledger |-> AwardMaxLedger, quantity |-> 1]
    /\ NoStatistics

NextAward ==
    \E s \in SessionIds :
        \/ \E amount \in AwardAmounts : award_points_read(s, 1, amount)
        \/ \E committed \in BOOLEAN : award_points_commit(s, committed)

SpecAward == InitAward /\ [][NextAward]_vars

\* ---------------------------------------------------------------- claims: concurrent awards
\* both calls have returned success
BothAwarded ==
    \A s \in SessionIds : sessions[s].pc = "answered" /\ sessions[s].success

\* the values of the 'points' rows of user 1 in the ledger, summed
LedgerPoints ==
    SumOver({k \in DOMAIN ledger :
                ledger[k].user_id = 1 /\ ledger[k].reward_type = "points"},
            [k \in DOMAIN ledger |-> ledger[k].value])

\* C26: when two concurrent award_points calls for the same user, with amounts a
\* and b, both report success, the points of the user are the initial points
\* + a + b, in agreement with the two ledger rows written
C26_NoLostAward ==
    BothAwarded =>
        /\ stats[1].points = Registered[1].points + sessions[1].amount + sessions[2].amount
        /\ stats[1].points = Registered[1].points + LedgerPoints

\* both calls returned success and wrote their ledger row, and the points of the
\* user are short of the two amounts
C26_Witness ==
    /\ BothAwarded
    /\ Len(ledger) = 2
    /\ stats[1].points < Registered[1].points + sessions[1].amount + sessions[2].amount

\* ---------------------------------------------------------------- claims: failed completion
\* the step ends the completion of session s in the except branch
CompletionFails(s) ==
    /\ sessions[s].pc \in {"idle", "folded"}
    /\ sessions'[s].pc = "answered"
    /\ ~sessions'[s].success

RolledBack ==
    \A s \in SessionIds :
        CompletionFails(s) =>
            /\ products' = products /\ nextId' = nextId
            /\ lists' = lists /\ items' = items
            /\ stats' = stats /\ ledger' = ledger
            /\ last'.status = "error" /\ ~last'.award.called

\* C27: a complete_shopping_list that fails while the items are folded or at the
\* commit is rolled back: no Product row is created or changed, the list is left
\* as it was (not completed), no points are awarded and no ledger row is written,
\* and the response reports the failure
C27_FailedCompletionRolledBack == [][RolledBack]_vars

\* a request was answered in the except branch: the pantry is the one before the
\* request, the list is open, the ledger is empty and no points were given
C27_Witness ==
    /\ \E s \in SessionIds : sessions[s].pc = "answered" /\ ~sessions[s].success
    /\ last.status = "error"
    /\ products = PantryBefore
    /\ ~lists[1].completed
    /\ ledger = <<>> /\ stats = Registered

\* ---------------------------------------------------------------- claims: points and ledger
\* the values of the 'points' rows of a user in the ledger, summed
LedgerPointsOf(u) ==
    SumOver({k \in DOMAIN ledger :
                ledger[k].user_id = u /\ ledger[k].reward_type = "points"},
            [k \in DOMAIN ledger |-> ledger[k].value])

\* C28: after any sequence of requests served one at a time, the points of every
\* user are the sum of the values of the user's RewardHistory rows of type
\* 'points'
C28_PointsMatchLedger ==
    \A u \in Users : stats[u].points = LedgerPointsOf(u)

\* user 1 was given the 5 points of a new shopping list on top of earlier awards
C28_Witness ==
    /\ last.actor = 1 /\ last.status = "ok"
    /\ last.award.success /\ last.award.points_awarded = 5
    /\ Len(ledger) >= 2
    /\ stats[1].points = LedgerPointsOf(1) /\ stats[1].points > 5

\* ---------------------------------------------------------------- meal plan prompt
\* what the user prompt of ai_generate_weekly_meal_plan embeds of the allergies
\* and the dietary restrictions: the tokens joined into its "Allergie" and
\* "Restrizioni dietetiche" lines, and whether the family block is present

\* _get_family_nutritional_constraints(user_id): the union over the members
_get_family_nutritional_constraints(profs, fam, user_id) ==
    LET members == get_user_family(fam, user_id)
    IN  IF members = {}
        THEN [allergies |-> {}, restrictions |-> {}, members_count |-> 1]
        ELSE [allergies |-> UNION {profs[m].allergies : m \in members},
              restrictions |-> UNION {profs[m].dietary_restrictions : m \in members},
              members_count |-> Cardinality(members)]

NoPrompt == [sent |-> FALSE, allergies |-> {}, restrictions |-> {}, family_info |-> FALSE]

\* ai_generate_weekly_meal_plan(..., share_with_family), up to requests.post:
\* without GROQ_API_KEY nothing is sent
WeeklyMealPlanPrompt(profs, fam, user_id, share_with_family, api_key) ==
    LET profile == profs[user_id]
        family_constraints == _get_family_nutritional_constraints(profs, fam, user_id)
    IN  IF ~api_key THEN NoPrompt
        ELSE IF share_with_family /\ family_constraints.members_count > 1
        THEN [sent |-> TRUE, allergies |-> family_constraints.allergies,
              restrictions |-> family_constraints.restrictions, family_info |-> TRUE]
        ELSE [sent |-> TRUE, allergies |-> profile.allergies,
              restrictions |-> profile.dietary_restrictions, family_info |-> FALSE]

\* ai_optimize_meal_planning(user_id, days, share_with_family), up to the prompt:
\* an empty pantry is answered with the basic plan, and nothing is sent
OptimizeMealPlanningPrompt(prods, profs, fam, user_id, share_with_family, api_key) ==
    IF {p \in DOMAIN prods : prods[p].user_id = user_id /\ ~prods[p].wasted} = {}
    THEN NoPrompt
    ELSE WeeklyMealPlanPrompt(profs, fam, user_id, share_with_family, api_key)

\* def ai_optimize_meal_planning(user_id, days=7, share_with_family=False)
ShareWithFamilyDefault == FALSE

\* POST /api/ai-meal-plan with share_with_family in its JSON, up to the prompt:
\* meal_plan = ai_optimize_meal_planning(current_user.id, days)
api_ai_meal_plan_prompt(u, share_with_family, api_key) ==
    Call([fn |-> "api_ai_meal_plan", user_id |-> u,
          share_with_family |-> share_with_family,
          prompt |-> OptimizeMealPlanningPrompt(products, profiles, family, u,
                                                ShareWithFamilyDefault, api_key)])

\* POST /nutritional-profile: the restrictions ticked and the allergies typed
\* (served once the meal plan request before it has been answered)
nutritional_profile(u, dietary_restrictions, allergies) ==
    /\ ai = AIIdle
    /\ profiles' = [profiles EXCEPT ![u] =
                       [allergies |-> allergies,
                        dietary_restrictions |-> dietary_restrictions]]
    /\ last' = Request(u, "ok")
    /\ UNCHANGED <<dbvars, ai, cap, statvars>>

\* ---------------------------------------------------------------- SpecPrompt
\* users 1 and 2 are one family; each has a pantry and edits the own profile
PromptAllergies == SUBSET {"latte", "glutine"}
PromptRestrictions == SUBSET {"vegan"}

InitPrompt ==
    /\ products = (1 :> ProductRow(1, "Riso", 1, "g", "Altro")) @@
                  (2 :> ProductRow(2, "Pasta", 1, "g", "Altro"))
    /\ lists = NoRows /\ items = NoRows /\ meals = NoRows
    /\ stats = Registered
    /\ ledger = <<>>
    /\ nextId = [product |-> 3, list |-> 1, item |-> 1, meal |-> 1]
    /\ last = Request(0, "none")
    /\ ai = AIIdle
    /\ profiles = NoProfiles
    /\ cap = [product |-> 2, list |-> 1, item |-> 1, meal |-> 1, ledger |-> 1,
              quantity |-> 1]
    /\ analytics = NoAnalytics /\ sessions = NoSessions
    /\ family = {1, 2}

NextPrompt ==
    \E u \in Users :
        \/ \E share_with_family \in BOOLEAN, api_key \in BOOLEAN :
              api_ai_meal_plan_prompt(u, share_with_family, api_key)
        \/ Deliver
        \/ \E r \in PromptRestrictions, a \in PromptAllergies : nutritional_profile(u, r, a)

SpecPrompt == InitPrompt /\ [][NextPrompt]_vars

\* ---------------------------------------------------------------- claims: meal plan prompt
\* a prompt was sent for a request with share_with_family = true of a member of a
\* family of more than one
SharedPlanPrompted ==
    /\ ai.fn = "api_ai_meal_plan"
    /\ ai.share_with_family
    /\ Cardinality(get_user_family(family, ai.user_id)) > 1
    /\ ai.prompt.sent

\* C29: when a meal plan is requested through api_ai_meal_plan with
\* share_with_family = true by a user whose family has more than one member, the
\* prompt sent embeds the allergies and the dietary restrictions of all the
\* members of the family, not only those of the requesting user
C29_PromptEmbedsFamilyConstraints ==
    SharedPlanPrompted =>
        /\ ai.prompt.allergies =
              UNION {profiles[m].allergies : m \in get_user_family(family, ai.user_id)}
        /\ ai.prompt.restrictions =
              UNION {profiles[m].dietary_restrictions :
                        m \in get_user_family(family, ai.user_id)}

\* user 1 asked for a plan shared with the family; user 2 is allergic to milk and
\* vegan, and the prompt names neither
C29_Witness ==
    /\ SharedPlanPrompted /\ ai.user_id = 1
    /\ "latte" \in profiles[2].allergies /\ "latte" \notin ai.prompt.allergies
    /\ "vegan" \in profiles[2].dietary_restrictions
    /\ "vegan" \notin ai.prompt.restrictions
    /\ ~ai.prompt.family_info

\* ---------------------------------------------------------------- SpecQuantity
\* the five handlers that write Product.quantity, on the pantry of user 1
QuantityMaxProducts == 2
QuantityMaxLedger == 1
QuantityMaxQuantity == 6

\* float(request.form['quantity']): any number the form holds
FormQuantities == {0 - 1, 0, 2}
\* float(request.form.get('waste_percentage', 100))
FormWastePercentages == {0 - 200, 50, 100, 150}

\* user 1 has 2 g of pasta, a list with 1 g of pasta ticked and a meal of 1 g of pasta
InitQuantity ==
    /\ products = (1 :> ProductRow(1, "Pasta", 2, "g", "Altro"))
    /\ lists = (1 :> [user_id |-> 1, completed |-> FALSE])
    /\ items = (1 :> [ItemRow(1, "Pasta", 1, "g") EXCEPT !.completed = TRUE])
    /\ meals = (1 :> [user_id |-> 1, custom_meal |-> <<Ingredient("Pasta", 1, "g")>>,
                      calories |-> 600])
    /\ stats = Registered
    /\ ledger = <<>>
    /\ nextId = [product |-> 2, list |-> 2, item |-> 2, meal |-> 2]
    /\ last = Request(0, "none")
    /\ ai = AIIdle
    /\ profiles = NoProfiles
    /\ cap = [product |-> QuantityMaxProducts, list |-> 1, item |-> 1, meal |-> 1,
              ledger |-> QuantityMaxLedger, quantity |-> QuantityMaxQuantity]
    /\ NoStatistics

NextQuantity ==
    \E u \in Users :
        \/ \E n \in Names, q \in FormQuantities :
              add_product(u, n, q, "g", "Altro", "none")
        \/ \E p \in 1..cap.product, n \in Names, q \in FormQuantities :
              edit_product(u, p, n, q, "g", "none")
        \/ \E p \in 1..cap.product, w \in FormWastePercentages :
              /\ waste_product(u, p, w, "none")
              /\ \A r \in DOMAIN products' : products'[r].quantity >= 0 - cap.quantity
        \/ complete_shopping_list(u, 1, "none")
        \/ meal_plan_consume(u, 1, "none")

SpecQuantity == InitQuantity /\ [][NextQuantity]_vars

\* ---------------------------------------------------------------- claims: quantity
\* C30: Product.quantity is never negative: after any sequence of add_product,
\* edit_product, waste_product (with any waste_percentage),
\* complete_shopping_list and meal_plan_consume every product's quantity is >= 0
C30_QuantityNeverNegative ==
    \A p \in DOMAIN products : products[p].quantity >= 0

\* the product of user 1 was edited to a quantity of -1
C30_Witness ==
    /\ last.actor = 1 /\ last.status = "ok"
    /\ products[1].quantity = 0 - 1 /\ ~products[1].wasted

====
